---- MODULE Spec2Model ----
(***************************************************************************)
(* A model of the multiprocessor task core of the nos kernel:              *)
(*   kernel/object_table.cpp  ObjectTable (id -> Object, reference held)   *)
(*   kernel/task.cpp          Task (reference counting, start, placement)  *)
(*                            and TaskTable (pid allocator + buckets)      *)
(* Every CPU executes kernel code one atomic step at a time; pc[c] is the  *)
(* call stack of CPU c (innermost label first), and the locals of every    *)
(* function live in per-CPU variables.  A spin lock is a variable holding  *)
(* the CPU that owns it.                                                   *)
(***************************************************************************)
EXTENDS Integers, Sequences, FiniteSets, TLC

\* ------------------------------------------------------------------ bounds
NCpus == 2          \* CPUs executing kernel code
NTasks == 2         \* Task objects that exist
MaxObjects == 2     \* Stdlib::ArraySize(ObjectArray), scaled down
MaxHeld == 2        \* references to one task a caller keeps at a time
NBuckets == 2       \* Stdlib::ArraySize(TaskList), scaled down
MaxCpus == 2        \* Const::MaxCpus, the size of the boot stack pool, scaled down
MaxCounter == 2     \* largest context-switch counter drawn

\* ------------------------------------------------------------- constants
NULL == 0           \* nullptr

Cpus == 0 .. (NCpus - 1)
NoCpu == NCpus                      \* "no CPU": a free lock
Tasks == 1 .. NTasks
ObjectIds == 0 .. (MaxObjects - 1)  \* the indices of ObjectArray
InvalidObjectId == MaxObjects + 7   \* an id that is no index of the array
ArgIds == 0 .. MaxObjects \cup {InvalidObjectId}  \* ids callers pass
Buckets == 0 .. (NBuckets - 1)      \* the indices of TaskTable::TaskList
MaskBits == NCpus + 1               \* 8 * sizeof(ulong), scaled down
AllOnes == (2 ^ MaskBits) - 1       \* ~((ulong)0)

VARIABLES
    ObjectArray,    \* ObjectTable::ObjectArray : id -> Task or NULL
    Lock,           \* ObjectTable::Lock : its holder, or NoCpu
    RefCounter,     \* Task::RefCounter
    Stack,          \* Task::Stack # nullptr
    TaskQueue,      \* Task::TaskQueue : the CPU whose queue owns it, or NoCpu
    Freed,          \* "delete this" has run on the task
    ReleaseCount,   \* how many times Task::Release has run on the task
    Pid,            \* Task::Pid
    Function,       \* Task::Function # nullptr
    Rsp,            \* Task::Rsp # 0: the saved stack pointer of the task
    State,          \* Task::State
    CpuAffinity,    \* Task::CpuAffinity, a bit mask
    TaskList,       \* TaskTable::TaskList : bucket -> sequence of linked tasks
    TtLock,         \* TaskTable::Lock : bucket -> its holder, or NoCpu
    QueueList,      \* per CPU: the tasks linked in its TaskQueue
    SwitchContextCounter, \* per CPU: TaskQueue::GetSwitchContextCounter()
    RunningCpus,    \* CpuTable::GetRunningCpus(), a bit mask
    Invoked,        \* per task (history): how often Function(Ctx) was called
    StackIndex,     \* main.cpp StackIndex: boot stacks handed out so far
    CpuStack,       \* per CPU: index of the boot stack rsp points into, or NoStack
    CpuState,       \* per CPU: Cpu state (Offline, Starting, Running, Exited)
    IpiAcks,        \* per CPU: IPIs it has received and acknowledged
    BootLog,        \* per CPU (history): the boot steps it has completed, in order
    InterruptEnabled, \* per CPU: IsInterruptEnabled()
    PreemptOnWaiting, \* main.cpp PreemptOnWaiting
    IpiPending,     \* per CPU: vectors raised on it and not yet handled
    ipiCpuMask,        \* per CPU: BpStartup local "cpuMask"
    cpuIndex,       \* per CPU: BpStartup loop variable "i"
    taskList,       \* TaskTable::~TaskTable local "taskList"
    dtorIndex,      \* loop variable of ~TaskTable ("i") and ~ObjectTable ("objectId")
    Panic,          \* "" or the message of the BugOn / Panic that stopped the kernel
    Undefined,      \* the undefined behaviours that have happened so far
    pc,             \* per thread: the call stack, innermost label first
    object,         \* per thread: ObjectTable::* local/parameter "object"
    objectId,       \* per thread: ObjectTable::* local/parameter "objectId"
    ret,            \* per thread: value returned by the last call (bool as 0/1)
    held,           \* per thread, per task: references the caller owns
    task,           \* per thread: "this"/"task" of the Task/TaskTable call
    taskQueue,      \* per thread: Task::Start local / Task::Run parameter
    delta           \* per thread (history): net change the running call has
                    \* made to the reference counter of its task

otVars == <<ObjectArray, Lock>>
taskVars == <<RefCounter, Stack, TaskQueue, Freed, ReleaseCount>>
fieldVars == <<Pid, Function, Rsp, State, CpuAffinity>>
ttVars == <<TaskList, TtLock>>
queueVars == <<QueueList, SwitchContextCounter, RunningCpus>>
machineVars == <<StackIndex, CpuStack, CpuState, IpiAcks, BootLog, InterruptEnabled,
                 PreemptOnWaiting, IpiPending, ipiCpuMask, cpuIndex, taskList, dtorIndex>>
schedVars == <<queueVars, Invoked, machineVars>>
failVars == <<Panic, Undefined>>
cpuVars == <<pc, object, objectId, ret, held, task, taskQueue, delta>>
vars == <<otVars, taskVars, fieldVars, ttVars, schedVars, failVars, cpuVars>>

\* what no ObjectTable step and no Get/Put touches
restVars == <<fieldVars, ttVars, schedVars, task, taskQueue>>

\* ------------------------------------------------------- control helpers
At(c, label) == Panic = "" /\ pc[c] # <<>> /\ Head(pc[c]) = label
Goto(c, label) == pc' = [pc EXCEPT ![c] = <<label>> \o Tail(@)]
Call(c, callee, after) == pc' = [pc EXCEPT ![c] = <<callee, after>> \o Tail(@)]
Return(c) == pc' = [pc EXCEPT ![c] = Tail(@)]

\* history: thread c changed the counter of task t by d
Counted(c, t, d) ==
    delta' = [delta EXCEPT ![c] = IF t # NULL /\ t = task[c] THEN @ + d ELSE @]

\* ---------------------------------------------------- Task::Get / Put
\* Task::~Task and Task::Release, run by the Put that takes the counter to 0.
ReleaseAndDelete(t) ==
    IF TaskQueue[t] # NoCpu
    THEN /\ Panic' = "BugOn(TaskQueue != nullptr)"
         /\ UNCHANGED <<Stack, TaskQueue, Freed, ReleaseCount>>
    ELSE /\ Stack' = [Stack EXCEPT ![t] = FALSE]
         /\ ReleaseCount' = [ReleaseCount EXCEPT ![t] = @ + 1]
         /\ Freed' = [Freed EXCEPT ![t] = TRUE]
         /\ UNCHANGED <<Panic, TaskQueue>>

\* A Task touched after "delete this": the counter is read from freed memory.
\* Either the stale 0 is still there and the BugOn fires, or the memory was
\* reused and the code goes on with its update.
TouchFreed(t, d) ==
    /\ Undefined' = Undefined \cup {"use after free"}
    /\ \/ /\ Panic' = "BugOn(RefCounter.Get() <= 0)"
          /\ UNCHANGED taskVars
       \/ /\ RefCounter' = [RefCounter EXCEPT ![t] = @ + d]
          /\ UNCHANGED <<Panic, Stack, TaskQueue, Freed, ReleaseCount>>

\* Mutant: Task::Get that checks the counter and forgets RefCounter.Inc().
GetWithoutInc(t) ==
    /\ UNCHANGED <<taskVars, Undefined>>
    /\ Panic' = IF RefCounter[t] <= 0 THEN "BugOn(RefCounter.Get() <= 0)" ELSE Panic

Get(t) ==
    IF Freed[t] THEN TouchFreed(t, 1)
    ELSE /\ UNCHANGED Undefined
         /\ IF RefCounter[t] <= 0
            THEN /\ Panic' = "BugOn(RefCounter.Get() <= 0)"
                 /\ UNCHANGED taskVars
            ELSE /\ RefCounter' = [RefCounter EXCEPT ![t] = @ + 1]
                 /\ UNCHANGED <<Panic, Stack, TaskQueue, Freed, ReleaseCount>>

\* Mutant: Task::Put whose test is off by one (releases at 2 -> 1 as well).
PutReleasesEarly(t) ==
    /\ UNCHANGED Undefined
    /\ RefCounter' = [RefCounter EXCEPT ![t] = @ - 1]
    /\ IF RefCounter[t] <= 2
       THEN /\ Stack' = [Stack EXCEPT ![t] = FALSE]
            /\ ReleaseCount' = [ReleaseCount EXCEPT ![t] = @ + 1]
            /\ Freed' = [Freed EXCEPT ![t] = TRUE]
            /\ UNCHANGED <<Panic, TaskQueue>>
       ELSE UNCHANGED <<Panic, Stack, TaskQueue, Freed, ReleaseCount>>

Put(t) ==
    IF Freed[t] THEN TouchFreed(t, -1)
    ELSE /\ UNCHANGED Undefined
         /\ IF RefCounter[t] <= 0
            THEN /\ Panic' = "BugOn(RefCounter.Get() <= 0)"
                 /\ UNCHANGED taskVars
            ELSE /\ RefCounter' = [RefCounter EXCEPT ![t] = @ - 1]
                 /\ IF RefCounter[t] = 1
                    THEN ReleaseAndDelete(t)
                    ELSE UNCHANGED <<Panic, Stack, TaskQueue, Freed, ReleaseCount>>

\* -------------------------------------------------- ObjectTable::Insert
\* Mutant: a scan that does not test the slot for nullptr.
FirstSlot(arr) == 0

\* The first free slot of the array, or InvalidObjectId when there is none.
FirstFree(arr) ==
    IF \E i \in ObjectIds : arr[i] = NULL
    THEN CHOOSE i \in ObjectIds :
            arr[i] = NULL /\ \A j \in ObjectIds : j < i => arr[j] # NULL
    ELSE InvalidObjectId

\* object->Get();
OtInsertGet(c) ==
    /\ At(c, "OtInsert")
    /\ Get(object[c])
    /\ Goto(c, "OtInsert_lock")
    /\ Counted(c, object[c], 1)
    /\ UNCHANGED <<otVars, object, objectId, ret, held, restVars>>

\* Stdlib::AutoLock lock(Lock);
OtInsertLock(c) ==
    /\ At(c, "OtInsert_lock")
    /\ Lock = NoCpu
    /\ Lock' = c
    /\ Goto(c, "OtInsert_scan")
    /\ UNCHANGED <<ObjectArray, taskVars, failVars, object, objectId, ret, held, restVars, delta>>

\* the scan for a free slot; "return objectId" or the end of the locked block
OtInsertScan(c) ==
    /\ At(c, "OtInsert_scan")
    /\ Lock' = NoCpu
    /\ LET id == FirstFree(ObjectArray) IN
       IF id # InvalidObjectId
       THEN /\ ObjectArray' = [ObjectArray EXCEPT ![id] = object[c]]
            /\ ret' = [ret EXCEPT ![c] = id]
            /\ object' = [object EXCEPT ![c] = NULL]
            /\ Return(c)
       ELSE /\ UNCHANGED <<ObjectArray, ret, object>>
            /\ Goto(c, "OtInsert_put")
    /\ UNCHANGED <<taskVars, failVars, objectId, held, restVars, delta>>

\* Mutant: the failure path returns without dropping the reference.
OtInsertFailKeepsRef(c) ==
    /\ At(c, "OtInsert_put")
    /\ ret' = [ret EXCEPT ![c] = InvalidObjectId]
    /\ object' = [object EXCEPT ![c] = NULL]
    /\ Return(c)
    /\ UNCHANGED <<otVars, taskVars, failVars, objectId, held, restVars, delta>>

\* object->Put(); return InvalidObjectId;
OtInsertPut(c) ==
    /\ At(c, "OtInsert_put")
    /\ Put(object[c])
    /\ ret' = [ret EXCEPT ![c] = InvalidObjectId]
    /\ object' = [object EXCEPT ![c] = NULL]
    /\ Return(c)
    /\ Counted(c, object[c], -1)
    /\ UNCHANGED <<otVars, objectId, held, restVars>>

\* -------------------------------------------------- ObjectTable::Remove
\* the range check, then Stdlib::AutoLock lock(Lock);
OtRemoveLock(c) ==
    /\ At(c, "OtRemove")
    /\ IF objectId[c] >= MaxObjects
       THEN /\ Return(c)
            /\ objectId' = [objectId EXCEPT ![c] = 0]
            /\ UNCHANGED Lock
       ELSE /\ Lock = NoCpu
            /\ Lock' = c
            /\ Goto(c, "OtRemove_swap")
            /\ UNCHANGED objectId
    /\ UNCHANGED <<ObjectArray, taskVars, failVars, object, ret, held, restVars, delta>>

\* object = ObjectArray[objectId]; ObjectArray[objectId] = nullptr; unlock
OtRemoveSwap(c) ==
    /\ At(c, "OtRemove_swap")
    /\ object' = [object EXCEPT ![c] = ObjectArray[objectId[c]]]
    /\ ObjectArray' = [ObjectArray EXCEPT ![objectId[c]] = NULL]
    /\ objectId' = [objectId EXCEPT ![c] = 0]
    /\ Lock' = NoCpu
    /\ Goto(c, "OtRemove_put")
    /\ UNCHANGED <<taskVars, failVars, ret, held, restVars, delta>>

\* if (object != nullptr) object->Put();
OtRemovePut(c) ==
    /\ At(c, "OtRemove_put")
    /\ IF object[c] # NULL
       THEN Put(object[c])
       ELSE UNCHANGED <<taskVars, failVars>>
    /\ object' = [object EXCEPT ![c] = NULL]
    /\ Return(c)
    /\ Counted(c, object[c], -1)
    /\ UNCHANGED <<otVars, objectId, ret, held, restVars>>

\* -------------------------------------------------- ObjectTable::Lookup
\* the range check, then Stdlib::AutoLock lock(Lock);
OtLookupLock(c) ==
    /\ At(c, "OtLookup")
    /\ IF objectId[c] >= MaxObjects
       THEN /\ ret' = [ret EXCEPT ![c] = NULL]
            /\ objectId' = [objectId EXCEPT ![c] = 0]
            /\ Return(c)
            /\ UNCHANGED Lock
       ELSE /\ Lock = NoCpu
            /\ Lock' = c
            /\ Goto(c, "OtLookup_read")
            /\ UNCHANGED <<ret, objectId>>
    /\ UNCHANGED <<ObjectArray, taskVars, failVars, object, held, restVars, delta>>

\* Mutant: the locked block ends after the slot is read, before Get.
OtLookupReadThenUnlock(c) ==
    /\ At(c, "OtLookup_read")
    /\ object' = [object EXCEPT ![c] = ObjectArray[objectId[c]]]
    /\ objectId' = [objectId EXCEPT ![c] = 0]
    /\ Lock' = NoCpu
    /\ Goto(c, "OtLookup_get")
    /\ UNCHANGED <<ObjectArray, taskVars, failVars, ret, held, restVars, delta>>

\* object = ObjectArray[objectId];   (the lock is held)
OtLookupRead(c) ==
    /\ At(c, "OtLookup_read")
    /\ object' = [object EXCEPT ![c] = ObjectArray[objectId[c]]]
    /\ objectId' = [objectId EXCEPT ![c] = 0]
    /\ Goto(c, "OtLookup_get")
    /\ UNCHANGED <<otVars, taskVars, failVars, ret, held, restVars, delta>>

\* if (object != nullptr) { object->Get(); return object; }  return nullptr;
\* either way the AutoLock is released on the way out
OtLookupGet(c) ==
    /\ At(c, "OtLookup_get")
    /\ IF object[c] # NULL
       THEN Get(object[c])
       ELSE UNCHANGED <<taskVars, failVars>>
    /\ ret' = [ret EXCEPT ![c] = object[c]]
    /\ object' = [object EXCEPT ![c] = NULL]
    /\ Lock' = IF Lock = c THEN NoCpu ELSE Lock
    /\ Return(c)
    /\ Counted(c, object[c], 1)
    /\ UNCHANGED <<ObjectArray, objectId, held, restVars>>

ObjectTableStep(c) ==
    \/ OtInsertGet(c) \/ OtInsertLock(c) \/ OtInsertScan(c) \/ OtInsertPut(c)
    \/ OtRemoveLock(c) \/ OtRemoveSwap(c) \/ OtRemovePut(c)
    \/ OtLookupLock(c) \/ OtLookupRead(c) \/ OtLookupGet(c)

\* ------------------------------------------- callers of the ObjectTable
\* A caller inserts an object it holds a reference to.
CallInsert(c, t) ==
    /\ At(c, "idle")
    /\ held[c][t] > 0
    /\ object' = [object EXCEPT ![c] = t]
    /\ Call(c, "OtInsert", "insert_done")
    /\ UNCHANGED <<otVars, taskVars, failVars, objectId, ret, held, restVars, delta>>

\* The caller has the id (or InvalidObjectId) and goes on.
InsertDone(c) ==
    /\ At(c, "insert_done")
    /\ ret' = [ret EXCEPT ![c] = NULL]
    /\ Goto(c, "idle")
    /\ UNCHANGED <<otVars, taskVars, failVars, object, objectId, held, restVars, delta>>

CallRemove(c, id) ==
    /\ At(c, "idle")
    /\ objectId' = [objectId EXCEPT ![c] = id]
    /\ Call(c, "OtRemove", "idle")
    /\ UNCHANGED <<otVars, taskVars, failVars, object, ret, held, restVars, delta>>

CallLookup(c, id) ==
    /\ At(c, "idle")
    /\ \A t \in DOMAIN RefCounter : held[c][t] < MaxHeld
    /\ objectId' = [objectId EXCEPT ![c] = id]
    /\ Call(c, "OtLookup", "lookup_done")
    /\ UNCHANGED <<otVars, taskVars, failVars, object, ret, held, restVars, delta>>

\* The caller keeps the referenced object Lookup returned.
LookupDone(c) ==
    /\ At(c, "lookup_done")
    /\ held' = [held EXCEPT ![c] =
                  IF ret[c] # NULL THEN [@ EXCEPT ![ret[c]] = @ + 1] ELSE @]
    /\ ret' = [ret EXCEPT ![c] = NULL]
    /\ Goto(c, "idle")
    /\ UNCHANGED <<otVars, taskVars, failVars, object, objectId, restVars, delta>>

\* A holder takes another reference.
CallGet(c, t) ==
    /\ At(c, "idle")
    /\ held[c][t] > 0 /\ held[c][t] < MaxHeld
    /\ Get(t)
    /\ held' = [held EXCEPT ![c][t] = @ + 1]
    /\ Counted(c, t, 1)
    /\ UNCHANGED <<otVars, pc, object, objectId, ret, restVars>>

\* A holder drops one of its references.
CallPut(c, t) ==
    /\ At(c, "idle")
    /\ held[c][t] > 0
    /\ Put(t)
    /\ held' = [held EXCEPT ![c][t] = @ - 1]
    /\ Counted(c, t, -1)
    /\ UNCHANGED <<otVars, pc, object, objectId, ret, restVars>>

\* ------------------------------------------------------------ ObjectTable
\* Task::Task: RefCounter.Set(1), no stack, on no queue; the creator of task
\* t is CPU (t % NCpus).  ObjectTable::ObjectTable: every slot nullptr.
TaskInit ==
    /\ RefCounter = [t \in Tasks |-> 1]
    /\ Stack = [t \in Tasks |-> FALSE]
    /\ TaskQueue = [t \in Tasks |-> NoCpu]
    /\ Freed = [t \in Tasks |-> FALSE]
    /\ ReleaseCount = [t \in Tasks |-> 0]
    /\ Pid = [t \in Tasks |-> InvalidObjectId]
    /\ Function = [t \in Tasks |-> FALSE]
    /\ Rsp = [t \in Tasks |-> FALSE]
    /\ State = [t \in Tasks |-> "New"]
    /\ CpuAffinity = [t \in Tasks |-> AllOnes]

ObjectTableInit ==
    /\ ObjectArray = [i \in ObjectIds |-> NULL]

\* TaskTable::TaskTable, the TaskQueue of every CPU, CpuTable: nothing linked,
\* no context switch yet.
KernelInitBase ==
    /\ Lock = NoCpu
    /\ TtLock = [b \in Buckets |-> NoCpu]
    /\ Panic = ""
    /\ Undefined = {}

NoStack == MaxCpus + 1

\* The machine after boot: every CPU runs on its own boot stack, each AP has
\* acknowledged the boot CPU's test IPI.  The boot log is not kept.
BootedInit ==
    /\ StackIndex = NCpus
    /\ CpuStack = [c \in Cpus |-> c]
    /\ CpuState = [c \in Cpus |-> "Running"]
    /\ IpiAcks = [c \in Cpus |-> IF c = 0 THEN 0 ELSE 1]
    /\ BootLog = [c \in Cpus |-> <<>>]
    /\ InterruptEnabled = [c \in Cpus |-> TRUE]
    /\ PreemptOnWaiting = FALSE
    /\ IpiPending = [c \in Cpus |-> <<>>]
    /\ ipiCpuMask = [c \in Cpus |-> 0]
    /\ cpuIndex = [c \in Cpus |-> 0]
    /\ taskList = <<>>
    /\ dtorIndex = 0

\* Every thread of the set is idle, with no call in progress.
ThreadsInit(threads) ==
    /\ object = [c \in threads |-> NULL]
    /\ objectId = [c \in threads |-> 0]
    /\ ret = [c \in threads |-> NULL]
    /\ task = [c \in threads |-> NULL]
    /\ taskQueue = [c \in threads |-> NoCpu]
    /\ delta = [c \in threads |-> 0]

InitOT ==
    /\ ObjectTableInit
    /\ TaskInit
    /\ KernelInitBase
    /\ TaskList = [b \in Buckets |-> <<>>]
    /\ QueueList = [q \in Cpus |-> <<>>]
    /\ SwitchContextCounter = [q \in Cpus |-> 0]
    /\ RunningCpus = AllOnes
    /\ Invoked = [t \in Tasks |-> 0]
    /\ BootedInit
    /\ ThreadsInit(Cpus)
    /\ pc = [c \in Cpus |-> <<"idle">>]
    /\ held = [c \in Cpus |-> [t \in Tasks |-> IF t % NCpus = c THEN 1 ELSE 0]]

NextOT ==
    \E c \in Cpus :
        \/ ObjectTableStep(c)
        \/ \E t \in Tasks : CallInsert(c, t)
        \/ InsertDone(c)
        \/ \E id \in ArgIds : CallRemove(c, id)
        \/ \E id \in ArgIds : CallLookup(c, id)
        \/ LookupDone(c)
        \/ \E t \in Tasks : CallGet(c, t)
        \/ \E t \in Tasks : CallPut(c, t)

SpecOT == InitOT /\ [][NextOT]_vars

\* ------------------------------------------------ Task::SelectNextTaskQueue
Bit(mask, i) == (mask \div (2 ^ i)) % 2 = 1

RECURSIVE BitAndFrom(_, _, _)
BitAndFrom(a, b, i) ==
    IF i = MaskBits THEN 0
    ELSE (IF Bit(a, i) /\ Bit(b, i) THEN 2 ^ i ELSE 0) + BitAndFrom(a, b, i + 1)
BitAnd(a, b) == BitAndFrom(a, b, 0)

\* The for loop from index i on; best is the local taskQueue (NoCpu: nullptr),
\* current the queue the task is on, counter the switch-context counters.
\* A variant that replaces the choice on an equal counter too
RECURSIVE SelectFromLast(_, _, _, _, _)
SelectFromLast(i, best, cpuMask, current, counter) ==
    IF i = MaskBits THEN best
    ELSE IF ~Bit(cpuMask, i) \/ i = current
         THEN SelectFromLast(i + 1, best, cpuMask, current, counter)
    ELSE IF best = NoCpu \/ counter[best] >= counter[i]
         THEN SelectFromLast(i + 1, i, cpuMask, current, counter)
    ELSE SelectFromLast(i + 1, best, cpuMask, current, counter)

RECURSIVE SelectFrom(_, _, _, _, _)
SelectFrom(i, best, cpuMask, current, counter) ==
    IF i = MaskBits THEN best
    ELSE IF ~Bit(cpuMask, i) \/ i = current
         THEN SelectFrom(i + 1, best, cpuMask, current, counter)
    ELSE IF best = NoCpu
         THEN SelectFrom(i + 1, i, cpuMask, current, counter)
    ELSE IF counter[best] > counter[i]
         THEN SelectFrom(i + 1, i, cpuMask, current, counter)
    ELSE SelectFrom(i + 1, best, cpuMask, current, counter)

SelectNextTaskQueue(running, affinity, current, counter) ==
    LET cpuMask == BitAnd(running, affinity) IN
    IF cpuMask # 0
    THEN SelectFrom(0, NoCpu, cpuMask, current, counter)
    ELSE NoCpu

\* ------------------------------------------------------------- TaskQueue
\* TaskQueue::Insert and TaskQueue::Remove: the queue holds one reference to
\* a task it links, and the task's back-pointer names the queue.
Without(seq, t) == SelectSeq(seq, LAMBDA x : x # t)
InSeq(seq, t) == \E k \in 1 .. Len(seq) : seq[k] = t

TqInsertGet(c) ==
    /\ At(c, "TqInsert")
    /\ Get(task[c])
    /\ Counted(c, task[c], 1)
    /\ Goto(c, "TqInsert_link")
    /\ UNCHANGED <<otVars, object, objectId, ret, held, restVars>>

TqInsertLink(c) ==
    /\ At(c, "TqInsert_link")
    /\ IF TaskQueue[task[c]] # NoCpu
       THEN /\ Panic' = "BugOn(task->TaskQueue != nullptr)"
            /\ UNCHANGED <<QueueList, TaskQueue, pc>>
       ELSE /\ QueueList' = [QueueList EXCEPT ![taskQueue[c]] = Append(@, task[c])]
            /\ TaskQueue' = [TaskQueue EXCEPT ![task[c]] = taskQueue[c]]
            /\ Return(c)
            /\ UNCHANGED Panic
    /\ UNCHANGED <<otVars, RefCounter, Stack, Freed, ReleaseCount, fieldVars, ttVars,
                   SwitchContextCounter, RunningCpus, Invoked, machineVars, Undefined,
                   object, objectId, ret, held, task, taskQueue, delta>>

TqRemoveUnlink(c) ==
    /\ At(c, "TqRemove")
    /\ QueueList' = [QueueList EXCEPT ![taskQueue[c]] = Without(@, task[c])]
    /\ TaskQueue' = [TaskQueue EXCEPT ![task[c]] = NoCpu]
    /\ Goto(c, "TqRemove_put")
    /\ UNCHANGED <<otVars, RefCounter, Stack, Freed, ReleaseCount, fieldVars, ttVars,
                   SwitchContextCounter, RunningCpus, Invoked, machineVars, failVars,
                   object, objectId, ret, held, task, taskQueue, delta>>

TqRemovePut(c) ==
    /\ At(c, "TqRemove_put")
    /\ Put(task[c])
    /\ Counted(c, task[c], -1)
    /\ Return(c)
    /\ UNCHANGED <<otVars, object, objectId, ret, held, restVars>>

TaskQueueStep(c) ==
    \/ TqInsertGet(c) \/ TqInsertLink(c) \/ TqRemoveUnlink(c) \/ TqRemovePut(c)

\* ------------------------------------------------------------- TaskTable
Bucket(t) == t % NBuckets       \* Stdlib::HashPtr(task) % ArraySize(TaskList)
Linked(t) == \E b \in Buckets : InSeq(TaskList[b], t)  \* !TableListEntry.IsEmpty()

\* TaskTable::Insert after TaskObjectTable.Insert(task) has returned
TtInsertPid(c) ==
    /\ At(c, "TtInsert_pid")
    /\ IF ret[c] = InvalidObjectId
       THEN /\ ret' = [ret EXCEPT ![c] = 0]
            /\ Return(c)
            /\ UNCHANGED Pid
       ELSE /\ Pid' = [Pid EXCEPT ![task[c]] = ret[c]]
            /\ ret' = [ret EXCEPT ![c] = NULL]
            /\ Goto(c, "TtInsert_get")
    /\ UNCHANGED <<otVars, taskVars, Function, Rsp, State, CpuAffinity, ttVars, schedVars,
                   failVars, object, objectId, held, task, taskQueue, delta>>

\* A variant that links the task without taking a reference for the table
TtInsertNoGet(c) ==
    /\ At(c, "TtInsert_get")
    /\ Goto(c, "TtInsert_lock")
    /\ UNCHANGED <<otVars, taskVars, failVars, delta, object, objectId, ret, held, restVars>>

\* task->Get();
TtInsertGet(c) ==
    /\ At(c, "TtInsert_get")
    /\ Get(task[c])
    /\ Counted(c, task[c], 1)
    /\ Goto(c, "TtInsert_lock")
    /\ UNCHANGED <<otVars, object, objectId, ret, held, restVars>>

\* Stdlib::AutoLock lock(Lock[i]);
TtInsertLock(c) ==
    /\ At(c, "TtInsert_lock")
    /\ TtLock[Bucket(task[c])] = NoCpu
    /\ TtLock' = [TtLock EXCEPT ![Bucket(task[c])] = c]
    /\ Goto(c, "TtInsert_link")
    /\ UNCHANGED <<otVars, taskVars, fieldVars, TaskList, schedVars, failVars,
                   object, objectId, ret, held, task, taskQueue, delta>>

\* BugOn(!task->TableListEntry.IsEmpty()); InsertTail; return true;
TtInsertLink(c) ==
    /\ At(c, "TtInsert_link")
    /\ IF Linked(task[c])
       THEN /\ Panic' = "BugOn(!task->TableListEntry.IsEmpty())"
            /\ UNCHANGED <<TaskList, TtLock, pc, ret>>
       ELSE /\ TaskList' = [TaskList EXCEPT ![Bucket(task[c])] = Append(@, task[c])]
            /\ TtLock' = [TtLock EXCEPT ![Bucket(task[c])] = NoCpu]
            /\ ret' = [ret EXCEPT ![c] = 1]
            /\ Return(c)
            /\ UNCHANGED Panic
    /\ UNCHANGED <<otVars, taskVars, fieldVars, schedVars, Undefined,
                   object, objectId, held, task, taskQueue, delta>>

\* TaskTable::Remove after TaskObjectTable.Remove(task->Pid) has returned:
\* Stdlib::AutoLock lock(Lock[i]);
TtRemoveLock(c) ==
    /\ At(c, "TtRemove_lock")
    /\ TtLock[Bucket(task[c])] = NoCpu
    /\ TtLock' = [TtLock EXCEPT ![Bucket(task[c])] = c]
    /\ Goto(c, "TtRemove_unlink")
    /\ UNCHANGED <<otVars, taskVars, fieldVars, TaskList, schedVars, failVars,
                   object, objectId, ret, held, task, taskQueue, delta>>

\* BugOn(task->TableListEntry.IsEmpty()); task->TableListEntry.RemoveInit();
TtRemoveUnlink(c) ==
    /\ At(c, "TtRemove_unlink")
    /\ IF ~Linked(task[c])
       THEN /\ Panic' = "BugOn(task->TableListEntry.IsEmpty())"
            /\ UNCHANGED <<TaskList, TtLock, pc>>
       ELSE /\ TaskList' = [b \in Buckets |-> Without(TaskList[b], task[c])]
            /\ TtLock' = [TtLock EXCEPT ![Bucket(task[c])] = NoCpu]
            /\ Goto(c, "TtRemove_put")
            /\ UNCHANGED Panic
    /\ UNCHANGED <<otVars, taskVars, fieldVars, schedVars, Undefined,
                   object, objectId, ret, held, task, taskQueue, delta>>

\* A variant of the last step that keeps the list's reference
TtRemoveKeepsRef(c) ==
    /\ At(c, "TtRemove_put")
    /\ Return(c)
    /\ UNCHANGED <<otVars, taskVars, failVars, object, objectId, ret, held, restVars, delta>>

\* task->Put();
TtRemovePut(c) ==
    /\ At(c, "TtRemove_put")
    /\ Put(task[c])
    /\ Counted(c, task[c], -1)
    /\ Return(c)
    /\ UNCHANGED <<otVars, object, objectId, ret, held, restVars>>

TaskTableStep(c) ==
    \/ TtInsertPid(c) \/ TtInsertGet(c) \/ TtInsertLock(c) \/ TtInsertLink(c)
    \/ TtRemoveLock(c) \/ TtRemoveUnlink(c) \/ TtRemovePut(c)

\* ------------------------------------------------------------------ Task
\* A variant without the two BugOn checks
PrepareStartUnchecked(c) ==
    /\ At(c, "PrepareStart")
    /\ UNCHANGED Panic
    /\ \/ /\ Stack' = [Stack EXCEPT ![task[c]] = TRUE]
          /\ object' = [object EXCEPT ![c] = task[c]]
          /\ pc' = [pc EXCEPT ![c] =
                      <<"OtInsert", "TtInsert_pid", "Prep_inserted">> \o Tail(@)]
          /\ UNCHANGED ret
       \/ /\ ret' = [ret EXCEPT ![c] = 0]
          /\ Return(c)
          /\ UNCHANGED <<Stack, object>>
    /\ UNCHANGED <<otVars, RefCounter, TaskQueue, Freed, ReleaseCount, fieldVars,
                   ttVars, schedVars, Undefined, objectId, held, task, taskQueue, delta>>

\* Task::PrepareStart up to the call of TaskTable::Insert; "new" may fail.
PrepareStart(c) ==
    /\ At(c, "PrepareStart")
    /\ IF Stack[task[c]] \/ Function[task[c]]
       THEN /\ Panic' = IF Stack[task[c]] THEN "BugOn(Stack != nullptr)"
                        ELSE "BugOn(Function != nullptr)"
            /\ UNCHANGED <<Stack, object, ret, pc>>
       ELSE /\ UNCHANGED Panic
            /\ \/ /\ Stack' = [Stack EXCEPT ![task[c]] = TRUE]
                  /\ object' = [object EXCEPT ![c] = task[c]]
                  /\ pc' = [pc EXCEPT ![c] =
                              <<"OtInsert", "TtInsert_pid", "Prep_inserted">> \o Tail(@)]
                  /\ UNCHANGED ret
               \/ /\ ret' = [ret EXCEPT ![c] = 0]
                  /\ Return(c)
                  /\ UNCHANGED <<Stack, object>>
    /\ UNCHANGED <<otVars, RefCounter, TaskQueue, Freed, ReleaseCount, fieldVars,
                   ttVars, schedVars, Undefined, objectId, held, task, taskQueue, delta>>

\* A variant that does not delete the stack when the insertion failed
PrepInsertedKeepsStack(c) ==
    /\ At(c, "Prep_inserted")
    /\ IF ret[c] = 0
       THEN UNCHANGED <<Function, ret>>
       ELSE /\ Function' = [Function EXCEPT ![task[c]] = TRUE]
            /\ ret' = [ret EXCEPT ![c] = 1]
    /\ Return(c)
    /\ UNCHANGED <<otVars, taskVars, Pid, Rsp, State, CpuAffinity, ttVars, schedVars, failVars,
                   object, objectId, held, task, taskQueue, delta>>

\* Task::PrepareStart after TaskTable::Insert has returned
PrepInserted(c) ==
    /\ At(c, "Prep_inserted")
    /\ IF ret[c] = 0
       THEN /\ Stack' = [Stack EXCEPT ![task[c]] = FALSE]
            /\ UNCHANGED <<Function, ret>>
       ELSE /\ Function' = [Function EXCEPT ![task[c]] = TRUE]
            /\ ret' = [ret EXCEPT ![c] = 1]
            /\ UNCHANGED Stack
    /\ Return(c)
    /\ UNCHANGED <<otVars, RefCounter, TaskQueue, Freed, ReleaseCount, Pid, Rsp, State,
                   CpuAffinity, ttVars, schedVars, failVars,
                   object, objectId, held, task, taskQueue, delta>>

\* A variant that goes on to the queue without the frame and the state
StartPreparedNoState(c) ==
    /\ At(c, "Start_prepared")
    /\ IF ret[c] = 0 THEN Return(c) ELSE Goto(c, "Start_select")
    /\ UNCHANGED <<otVars, taskVars, fieldVars, ttVars, schedVars,
                   failVars, object, objectId, ret, held, task, taskQueue, delta>>

\* Task::Start after PrepareStart: the initial frame, State.Set(StateWaiting)
StartPrepared(c) ==
    /\ At(c, "Start_prepared")
    /\ IF ret[c] = 0
       THEN /\ Return(c)
            /\ UNCHANGED <<Rsp, State>>
       ELSE /\ Rsp' = [Rsp EXCEPT ![task[c]] = TRUE]       \* Rsp = (ulong)regs;
            /\ State' = [State EXCEPT ![task[c]] = "Waiting"]
            /\ Goto(c, "Start_select")
    /\ UNCHANGED <<otVars, taskVars, Pid, Function, CpuAffinity, ttVars, schedVars,
                   failVars, object, objectId, ret, held, task, taskQueue, delta>>

\* A variant that always takes the queue of CPU 0
StartSelectBootCpu(c) ==
    /\ At(c, "Start_select")
    /\ taskQueue' = [taskQueue EXCEPT ![c] = 0]
    /\ Goto(c, "Start_insert")
    /\ UNCHANGED <<otVars, taskVars, fieldVars, ttVars, schedVars, failVars,
                   object, objectId, ret, held, task, delta>>

\* auto taskQueue = SelectNextTaskQueue();
StartSelect(c) ==
    /\ At(c, "Start_select")
    /\ taskQueue' = [taskQueue EXCEPT ![c] =
            SelectNextTaskQueue(RunningCpus, CpuAffinity[task[c]],
                                TaskQueue[task[c]], SwitchContextCounter)]
    /\ Goto(c, "Start_insert")
    /\ UNCHANGED <<otVars, taskVars, fieldVars, ttVars, schedVars, failVars,
                   object, objectId, ret, held, task, delta>>

\* taskQueue->Insert(this);  With taskQueue == nullptr the call dereferences a
\* null pointer: the access faults and the kernel stops, or it lands in
\* whatever is mapped at address 0 and Start goes on to "return true".
StartInsert(c) ==
    /\ At(c, "Start_insert")
    /\ IF taskQueue[c] = NoCpu
       THEN /\ Undefined' = Undefined \cup {"null dereference"}
            /\ \/ /\ Panic' = "page fault"
                  /\ UNCHANGED pc
               \/ /\ Goto(c, "Start_ret")
                  /\ UNCHANGED Panic
       ELSE /\ pc' = [pc EXCEPT ![c] = <<"TqInsert", "Start_ret">> \o Tail(@)]
            /\ UNCHANGED failVars
    /\ UNCHANGED <<otVars, taskVars, fieldVars, ttVars, schedVars,
                   object, objectId, ret, held, task, taskQueue, delta>>

\* return true;
StartRet(c) ==
    /\ At(c, "Start_ret")
    /\ ret' = [ret EXCEPT ![c] = 1]
    /\ Return(c)
    /\ UNCHANGED <<otVars, taskVars, fieldVars, ttVars, schedVars, failVars,
                   object, objectId, held, task, taskQueue, delta>>

\* Task::Run after PrepareStart: SetRsp, State.Set(StateRunning),
\* taskQueue.Insert(this)
RunPrepared(c) ==
    /\ At(c, "Run_prepared")
    /\ IF ret[c] = 0
       THEN /\ Return(c)
            /\ UNCHANGED State
       ELSE /\ State' = [State EXCEPT ![task[c]] = "Running"]
            /\ pc' = [pc EXCEPT ![c] = <<"TqInsert", "Run_callback">> \o Tail(@)]
    /\ UNCHANGED <<otVars, taskVars, Pid, Function, Rsp, CpuAffinity, ttVars, schedVars,
                   failVars, object, objectId, ret, held, task, taskQueue, delta>>

\* A variant that removes the task from the queue of another CPU
RunCallbackOtherQueue(c) ==
    /\ At(c, "Run_callback")
    /\ taskQueue' = [taskQueue EXCEPT ![c] = (@ + 1) % NCpus]
    /\ Invoked' = [Invoked EXCEPT ![task[c]] = @ + 1]
    /\ pc' = [pc EXCEPT ![c] = <<"TqRemove", "Run_unregister">> \o Tail(@)]
    /\ UNCHANGED <<otVars, taskVars, fieldVars, ttVars, queueVars, machineVars, failVars,
                   object, objectId, ret, held, task, delta>>

\* Function(Ctx) is called and returns; taskQueue.Remove(this);
RunCallback(c) ==
    /\ At(c, "Run_callback")
    /\ Invoked' = [Invoked EXCEPT ![task[c]] = @ + 1]
    /\ pc' = [pc EXCEPT ![c] = <<"TqRemove", "Run_unregister">> \o Tail(@)]
    /\ UNCHANGED <<otVars, taskVars, fieldVars, ttVars, queueVars, machineVars, failVars,
                   object, objectId, ret, held, task, taskQueue, delta>>

\* TaskTable::GetInstance().Remove(this), which starts with
\* TaskObjectTable.Remove(task->Pid)
RunUnregister(c) ==
    /\ At(c, "Run_unregister")
    /\ objectId' = [objectId EXCEPT ![c] = Pid[task[c]]]
    /\ pc' = [pc EXCEPT ![c] = <<"OtRemove", "TtRemove_lock", "Run_ret">> \o Tail(@)]
    /\ delta' = [delta EXCEPT ![c] = 0]
    /\ UNCHANGED <<otVars, taskVars, fieldVars, ttVars, schedVars, failVars,
                   object, ret, held, task, taskQueue>>

\* return true;
RunRet(c) ==
    /\ At(c, "Run_ret")
    /\ ret' = [ret EXCEPT ![c] = 1]
    /\ Return(c)
    /\ UNCHANGED <<otVars, taskVars, fieldVars, ttVars, schedVars, failVars,
                   object, objectId, held, task, taskQueue, delta>>

\* The thread of a task: Task::Exec -> ExecCallback: Function(Ctx) is called
\* and returns; Exit() comes next
ExecCallback(c) ==
    /\ At(c, "ExecCallback")
    /\ Invoked' = [Invoked EXCEPT ![task[c]] = @ + 1]
    /\ Goto(c, "Exit")
    /\ UNCHANGED <<otVars, taskVars, fieldVars, ttVars, queueVars, machineVars, failVars,
                   object, objectId, ret, held, task, taskQueue, delta>>

\* Task::GetCurrentTask() == t on thread c: c runs on the stack of task t
IsCurrentTask(c, t) == c = NCpus + t

\* A variant that leaves the state of the task alone
ExitKeepsState(c) ==
    /\ At(c, "Exit")
    /\ IF ~IsCurrentTask(c, task[c])
       THEN /\ Panic' = "BugOn(this != GetCurrentTask())"
            /\ UNCHANGED <<State, objectId, pc, delta>>
       ELSE /\ UNCHANGED <<State, Panic>>
            /\ objectId' = [objectId EXCEPT ![c] = Pid[task[c]]]
            /\ pc' = [pc EXCEPT ![c] =
                        <<"OtRemove", "TtRemove_lock", "Exit_schedule">> \o Tail(@)]
            /\ delta' = [delta EXCEPT ![c] = 0]
    /\ UNCHANGED <<otVars, taskVars, Pid, Function, Rsp, CpuAffinity, ttVars, schedVars,
                   Undefined, object, ret, held, task, taskQueue>>

\* Task::Exit: BugOn(this != GetCurrentTask()); State.Set(StateExited);
\* TaskTable::GetInstance().Remove(this)
Exit(c) ==
    /\ At(c, "Exit")
    /\ IF ~IsCurrentTask(c, task[c])
       THEN /\ Panic' = "BugOn(this != GetCurrentTask())"
            /\ UNCHANGED <<State, objectId, pc, delta>>
       ELSE /\ State' = [State EXCEPT ![task[c]] = "Exited"]
            /\ objectId' = [objectId EXCEPT ![c] = Pid[task[c]]]
            /\ pc' = [pc EXCEPT ![c] =
                        <<"OtRemove", "TtRemove_lock", "Exit_schedule">> \o Tail(@)]
            /\ delta' = [delta EXCEPT ![c] = 0]
            /\ UNCHANGED Panic
    /\ UNCHANGED <<otVars, taskVars, Pid, Function, Rsp, CpuAffinity, ttVars, schedVars,
                   Undefined, object, ret, held, task, taskQueue>>

\* Schedule(); Panic("Can't be here");  The scheduler never switches back to
\* a task whose state is Exited; a task in another state is resumed sooner or
\* later and runs into the Panic.
ExitSchedule(c) ==
    /\ At(c, "Exit_schedule")
    /\ IF State[task[c]] = "Exited"
       THEN /\ pc' = [pc EXCEPT ![c] = <<"switched_out">>]
            /\ task' = [task EXCEPT ![c] = NULL]
            /\ delta' = [delta EXCEPT ![c] = 0]
            /\ UNCHANGED Panic
       ELSE /\ Panic' = "Can't be here"
            /\ UNCHANGED <<pc, task, delta>>
    /\ UNCHANGED <<otVars, taskVars, fieldVars, ttVars, schedVars, Undefined,
                   object, objectId, ret, held, taskQueue>>

TaskStep(c) ==
    \/ PrepareStart(c) \/ PrepInserted(c)
    \/ StartPrepared(c) \/ StartSelect(c) \/ StartInsert(c) \/ StartRet(c)
    \/ RunPrepared(c) \/ RunCallback(c) \/ RunUnregister(c) \/ RunRet(c)
    \/ ExecCallback(c) \/ Exit(c) \/ ExitSchedule(c)

\* ------------------------------------------------ scheduler and callers
Thread(t) == NCpus + t          \* the thread of control of task t
Threads == Cpus \cup {Thread(t) : t \in Tasks}

\* The first switch into a task that waits on a queue: it starts in the
\* trampoline Task::Exec.
Dispatch(t) ==
    /\ Panic = ""
    /\ State[t] = "Waiting"
    /\ TaskQueue[t] # NoCpu
    /\ State' = [State EXCEPT ![t] = "Running"]
    /\ pc' = [pc EXCEPT ![Thread(t)] = <<"ExecCallback">>]
    /\ task' = [task EXCEPT ![Thread(t)] = t]
    /\ \E q \in Cpus :      \* the CPU that picked the task from its queue
        /\ InSeq(QueueList[q], t)
        /\ taskQueue' = [taskQueue EXCEPT ![Thread(t)] = q]
    /\ UNCHANGED <<otVars, taskVars, Pid, Function, Rsp, CpuAffinity, ttVars, schedVars,
                   failVars, object, objectId, ret, held, delta>>

\* task->SetCpuAffinity(mask) on a task not started yet
CallSetCpuAffinity(c, t, mask) ==
    /\ At(c, "idle")
    /\ held[c][t] > 0 /\ State[t] = "New"
    /\ CpuAffinity[t] # mask
    /\ CpuAffinity' = [CpuAffinity EXCEPT ![t] = mask]
    /\ UNCHANGED <<otVars, taskVars, Pid, Function, Rsp, State, ttVars, schedVars,
                   failVars, cpuVars>>

\* task->Start(func, ctx) by a holder of the task
CallStart(c, t) ==
    /\ At(c, "idle")
    /\ held[c][t] > 0
    /\ task' = [task EXCEPT ![c] = t]
    /\ pc' = [pc EXCEPT ![c] = <<"PrepareStart", "Start_prepared", "start_done">>]
    /\ UNCHANGED <<otVars, taskVars, fieldVars, ttVars, schedVars, failVars,
                   object, objectId, ret, held, taskQueue, delta>>

\* task->Run(queue of this CPU, func, ctx), as Cpu::Run does
CallRun(c, t) ==
    /\ At(c, "idle")
    /\ held[c][t] > 0
    /\ task' = [task EXCEPT ![c] = t]
    /\ taskQueue' = [taskQueue EXCEPT ![c] = c]
    /\ pc' = [pc EXCEPT ![c] = <<"PrepareStart", "Run_prepared", "run_done">>]
    /\ UNCHANGED <<otVars, taskVars, fieldVars, ttVars, schedVars, failVars,
                   object, objectId, ret, held, delta>>

\* task->Exit() called by some code that holds the task
CallExit(c, t) ==
    /\ At(c, "idle")
    /\ held[c][t] > 0
    /\ task' = [task EXCEPT ![c] = t]
    /\ pc' = [pc EXCEPT ![c] = <<"Exit", "exit_done">>]
    /\ UNCHANGED <<otVars, taskVars, fieldVars, ttVars, schedVars, failVars,
                   object, objectId, ret, held, taskQueue, delta>>

\* The caller of Start or Run has the result and goes on.
StartDone(c) ==
    /\ At(c, "start_done") \/ At(c, "run_done")
    /\ pc' = [pc EXCEPT ![c] = <<"idle">>]
    /\ ret' = [ret EXCEPT ![c] = NULL]
    /\ task' = [task EXCEPT ![c] = NULL]
    /\ taskQueue' = [taskQueue EXCEPT ![c] = NoCpu]
    /\ delta' = [delta EXCEPT ![c] = 0]
    /\ UNCHANGED <<otVars, taskVars, fieldVars, ttVars, schedVars, failVars,
                   object, objectId, held>>

\* --------------------------------------------------------- the task core
BootCpu == 0             \* the CPU that runs the boot code and starts the tasks
Resident == NTasks + 1   \* the task Cpu::Run made for the boot code
AllTasks == Tasks \cup {Resident}
AffinityMasks == {0, 2 ^ (NCpus - 1), AllOnes}

\* The boot code runs as the resident task on the boot CPU: Task::Run has
\* registered it (slot 0, its bucket, the boot CPU's queue); the test tasks are
\* constructed and held by the boot code.
Init ==
    /\ KernelInitBase
    /\ RefCounter = [t \in AllTasks |-> IF t = Resident THEN 4 ELSE 1]
    /\ Stack = [t \in AllTasks |-> t = Resident]
    /\ TaskQueue = [t \in AllTasks |-> IF t = Resident THEN BootCpu ELSE NoCpu]
    /\ Pid = [t \in AllTasks |-> IF t = Resident THEN 0 ELSE InvalidObjectId]
    /\ Function = [t \in AllTasks |-> t = Resident]
    /\ Rsp = [t \in AllTasks |-> FALSE]
    /\ State = [t \in AllTasks |-> IF t = Resident THEN "Running" ELSE "New"]
    /\ ObjectArray = [i \in ObjectIds |-> IF i = 0 THEN Resident ELSE NULL]
    /\ TaskList = [b \in Buckets |-> IF b = Bucket(Resident) THEN <<Resident>> ELSE <<>>]
    /\ QueueList = [q \in Cpus |-> IF q = BootCpu THEN <<Resident>> ELSE <<>>]
    /\ Freed = [t \in AllTasks |-> FALSE]
    /\ ReleaseCount = [t \in AllTasks |-> 0]
    /\ CpuAffinity = [t \in AllTasks |-> AllOnes]
    /\ SwitchContextCounter = [q \in Cpus |-> 0]
    /\ RunningCpus = 2 ^ NCpus - 1
    /\ Invoked = [t \in AllTasks |-> IF t = Resident THEN 1 ELSE 0]
    /\ BootedInit
    /\ ThreadsInit(Threads)
    /\ pc = [c \in Threads |-> IF c \in Cpus THEN <<"idle">> ELSE <<>>]
    /\ held = [c \in Threads |-> [t \in AllTasks |->
                 IF c = BootCpu THEN 1 ELSE 0]]

Next ==
    \/ \E c \in Threads :
        \/ ObjectTableStep(c)
        \/ TaskTableStep(c)
        \/ TaskQueueStep(c)
        \/ TaskStep(c)
    \/ \E t \in Tasks : Dispatch(t)
    \/ \E t \in Tasks : \E mask \in AffinityMasks : CallSetCpuAffinity(BootCpu, t, mask)
    \/ \E t \in Tasks : CallStart(BootCpu, t)
    \/ \E t \in Tasks : CallRun(BootCpu, t)
    \/ \E t \in Tasks : CallExit(BootCpu, t)
    \/ StartDone(BootCpu)
    \/ \E c \in Cpus \ {BootCpu} :
        \/ \E t \in Tasks : CallLookup(c, Pid[t])
        \/ LookupDone(c)
    \/ \E c \in Cpus : \E t \in Tasks : CallPut(c, t)

Spec == Init /\ [][Next]_vars

\* ----------------------------------- SelectNextTaskQueue on drawn inputs
\* A caller evaluates task->SelectNextTaskQueue() and looks at the result.
CallSelectNextTaskQueue(c, t) ==
    /\ At(c, "idle")
    /\ task' = [task EXCEPT ![c] = t]
    /\ taskQueue' = [taskQueue EXCEPT ![c] =
            SelectNextTaskQueue(RunningCpus, CpuAffinity[t], TaskQueue[t],
                                SwitchContextCounter)]
    /\ pc' = [pc EXCEPT ![c] = <<"select_done">>]
    /\ UNCHANGED <<otVars, taskVars, fieldVars, ttVars, schedVars, failVars,
                   object, objectId, ret, held, delta>>

SelectDone(c) ==
    /\ At(c, "select_done")
    /\ task' = [task EXCEPT ![c] = NULL]
    /\ taskQueue' = [taskQueue EXCEPT ![c] = NoCpu]
    /\ pc' = [pc EXCEPT ![c] = <<"idle">>]
    /\ UNCHANGED <<otVars, taskVars, fieldVars, ttVars, schedVars, failVars,
                   object, objectId, ret, held, delta>>

\* Task 1 is prepared and registered (slot 0, its bucket); it is on no queue
\* yet (as inside Task::Start) or on the queue of some CPU.  The running mask,
\* the affinity mask and the context-switch counters are arbitrary.
InitSel ==
    /\ KernelInitBase
    /\ \E q \in Cpus \cup {NoCpu} :
        /\ TaskQueue = [t \in Tasks |-> IF t = 1 THEN q ELSE NoCpu]
        /\ QueueList = [p \in Cpus |-> IF p = q THEN <<1>> ELSE <<>>]
        /\ RefCounter = [t \in Tasks |-> IF t # 1 THEN 1 ELSE IF q = NoCpu THEN 3 ELSE 4]
    /\ Stack = [t \in Tasks |-> t = 1]
    /\ Function = [t \in Tasks |-> t = 1]
    /\ Rsp = [t \in Tasks |-> t = 1]
    /\ State = [t \in Tasks |-> IF t = 1 THEN "Waiting" ELSE "New"]
    /\ Pid = [t \in Tasks |-> IF t = 1 THEN 0 ELSE InvalidObjectId]
    /\ ObjectArray = [i \in ObjectIds |-> IF i = 0 THEN 1 ELSE NULL]
    /\ TaskList = [b \in Buckets |-> IF b = Bucket(1) THEN <<1>> ELSE <<>>]
    /\ Freed = [t \in Tasks |-> FALSE]
    /\ ReleaseCount = [t \in Tasks |-> 0]
    /\ \E mask \in 0 .. AllOnes :
        CpuAffinity = [t \in Tasks |-> IF t = 1 THEN mask ELSE AllOnes]
    /\ RunningCpus \in 0 .. (2 ^ NCpus - 1)
    /\ SwitchContextCounter \in [Cpus -> 0 .. MaxCounter]
    /\ Invoked = [t \in Tasks |-> 0]
    /\ BootedInit
    /\ ThreadsInit(Cpus)
    /\ pc = [c \in Cpus |-> <<"idle">>]
    /\ held = [c \in Cpus |-> [t \in Tasks |-> IF c = BootCpu THEN 1 ELSE 0]]

NextSel ==
    \/ CallSelectNextTaskQueue(BootCpu, 1)
    \/ SelectDone(BootCpu)

SpecSel == InitSel /\ [][NextSel]_vars

\* ------------------------------------------- placement of started tasks
\* The CPU of queue q switches context to a task of its queue: its
\* context-switch counter goes up.  A CPU with an empty queue has nothing to
\* switch to.
SwitchContext(q) ==
    /\ Panic = ""
    /\ QueueList[q] # <<>>
    /\ SwitchContextCounter[q] < MaxCounter
    /\ SwitchContextCounter' = [SwitchContextCounter EXCEPT ![q] = @ + 1]
    /\ UNCHANGED <<otVars, taskVars, fieldVars, ttVars, QueueList, RunningCpus, Invoked, machineVars,
                   failVars, cpuVars>>

\* All CPUs run with empty queues and equal counters, the TaskTable is empty;
\* the boot CPU holds the new tasks and starts them one after another.
InitPlace ==
    /\ ObjectTableInit
    /\ TaskInit
    /\ KernelInitBase
    /\ TaskList = [b \in Buckets |-> <<>>]
    /\ QueueList = [q \in Cpus |-> <<>>]
    /\ SwitchContextCounter = [q \in Cpus |-> 0]
    /\ RunningCpus = 2 ^ NCpus - 1
    /\ Invoked = [t \in Tasks |-> 0]
    /\ BootedInit
    /\ ThreadsInit(Cpus)
    /\ pc = [c \in Cpus |-> <<"idle">>]
    /\ held = [c \in Cpus |-> [t \in Tasks |-> IF c = BootCpu THEN 1 ELSE 0]]

NextPlace ==
    \/ \E t \in Tasks : CallStart(BootCpu, t)
    \/ PrepareStart(BootCpu) \/ PrepInserted(BootCpu)
    \/ OtInsertGet(BootCpu) \/ OtInsertLock(BootCpu) \/ OtInsertScan(BootCpu)
    \/ TtInsertPid(BootCpu) \/ TtInsertGet(BootCpu)
    \/ TtInsertLock(BootCpu) \/ TtInsertLink(BootCpu)
    \/ StartPrepared(BootCpu) \/ StartSelect(BootCpu)
    \/ StartInsert(BootCpu) \/ StartRet(BootCpu)
    \/ TqInsertGet(BootCpu) \/ TqInsertLink(BootCpu)
    \/ StartDone(BootCpu)
    \/ \E q \in Cpus : SwitchContext(q)

SpecPlace == InitPlace /\ [][NextPlace]_vars

\* ---------------------------------------------------------------------------
\* Task::Wait and the join of started tasks, under fair scheduling

\* task->Wait() called by code that holds the task
CallWait(c, t) ==
    /\ At(c, "idle")
    /\ held[c][t] > 0
    /\ task' = [task EXCEPT ![c] = t]
    /\ pc' = [pc EXCEPT ![c] = <<"Wait", "wait_done">>]
    /\ UNCHANGED <<otVars, taskVars, fieldVars, ttVars, schedVars, failVars,
                   object, objectId, ret, held, taskQueue, delta>>

\* Task::Wait: while (State.Get() != StateExited) Sleep(1 ms)
Wait(c) ==
    /\ At(c, "Wait")
    /\ IF State[task[c]] # "Exited" THEN Goto(c, "Wait_sleep") ELSE Return(c)
    /\ UNCHANGED <<otVars, taskVars, fieldVars, ttVars, schedVars, failVars,
                   object, objectId, ret, held, task, taskQueue, delta>>

\* Sleep(ns) returns once the deadline has passed and the sleeper is resumed
WaitSleep(c) ==
    /\ At(c, "Wait_sleep")
    /\ Goto(c, "Wait")
    /\ UNCHANGED <<otVars, taskVars, fieldVars, ttVars, schedVars, failVars,
                   object, objectId, ret, held, task, taskQueue, delta>>

\* Wait has returned to its caller
WaitDone(c) ==
    /\ At(c, "wait_done")
    /\ pc' = [pc EXCEPT ![c] = <<"idle">>]
    /\ task' = [task EXCEPT ![c] = NULL]
    /\ UNCHANGED <<otVars, taskVars, fieldVars, ttVars, schedVars, failVars,
                   object, objectId, ret, held, taskQueue, delta>>

\* The steps thread c takes by itself once it has been called
Running(c) ==
    \/ OtInsertGet(c) \/ OtInsertLock(c) \/ OtInsertScan(c) \/ OtInsertPut(c)
    \/ OtRemoveLock(c) \/ OtRemoveSwap(c) \/ OtRemovePut(c)
    \/ TaskTableStep(c) \/ TaskQueueStep(c) \/ TaskStep(c)
    \/ Wait(c) \/ WaitSleep(c)

NextWait ==
    \/ \E c \in Threads : Running(c)
    \/ \E t \in Tasks : Dispatch(t)
    \/ \E t \in Tasks : CallStart(BootCpu, t)
    \/ \E t \in Tasks : CallRun(BootCpu, t)
    \/ \E t \in Tasks : CallWait(BootCpu, t)
    \/ StartDone(BootCpu) \/ WaitDone(BootCpu)

\* Fair scheduling: a thread that can take a step takes one sooner or later,
\* and a queued task is switched to sooner or later.
FairWait ==
    /\ \A c \in Threads : WF_vars(Running(c))
    /\ \A t \in Tasks : WF_vars(Dispatch(t))
    /\ WF_vars(StartDone(BootCpu))

SpecWait == Init /\ [][NextWait]_vars /\ FairWait

\* ---------------------------------------------------------------------------
\* Boot: Main and BpStartup on the boot processor, ApMain and ApStartup on
\* the application processors (main.cpp)

\* what the boot code outside Task::Run leaves alone
dtorVars == <<taskList, dtorIndex>>
kernelVars == <<otVars, taskVars, fieldVars, ttVars, QueueList, SwitchContextCounter,
                Invoked, Undefined, dtorVars>>
callVars == <<object, objectId, held, task, taskQueue, delta>>
stackVars == <<StackIndex, CpuStack>>
ipiVars == <<IpiAcks, IpiPending, ipiCpuMask, cpuIndex>>

Log(c, step) == BootLog' = [BootLog EXCEPT ![c] = Append(@, step)]

\* ALLOC_CPU_STACK: auto index = AtomicReadAndInc(&StackIndex)
AllocCpuStack(c) ==
    /\ At(c, "ALLOC_CPU_STACK")
    /\ ret' = [ret EXCEPT ![c] = StackIndex]
    /\ StackIndex' = StackIndex + 1
    /\ Goto(c, "ALLOC_CPU_STACK: SetRsp")
    /\ UNCHANGED <<kernelVars, callVars, RunningCpus, Panic, CpuStack, CpuState, BootLog,
                   InterruptEnabled, PreemptOnWaiting, ipiVars>>

\* A variant that reads the counter without incrementing it
SetStackOf(c, index) ==
    /\ StackIndex' = index
    /\ CpuStack' = [CpuStack EXCEPT ![c] = index]

\* SetRsp((long)&Stack[index][CpuStackSize])
SetStack(c, index) ==
    /\ CpuStack' = [CpuStack EXCEPT ![c] = index]
    /\ UNCHANGED StackIndex

\* ALLOC_CPU_STACK: if (index >= (long)MaxCpus) Panic(...); SetRsp(...)
AllocCpuStackCheck(c) ==
    /\ At(c, "ALLOC_CPU_STACK: SetRsp")
    /\ IF ret[c] >= MaxCpus
       THEN /\ Panic' = "Can't allocate stack for cpu"
            /\ UNCHANGED <<pc, stackVars>>
       ELSE /\ SetStack(c, ret[c])
            /\ Return(c)
            /\ UNCHANGED Panic
    /\ UNCHANGED <<kernelVars, callVars, ret, RunningCpus, CpuState, BootLog,
                   InterruptEnabled, PreemptOnWaiting, ipiVars>>

\* Main up to cpu.Run: each step with the Panic it ends in when it fails
\* ("" where the step cannot fail)
MainStepsLapicEarly ==
    << <<"Main: Idt.Save", "">>,
       <<"Main: Dmesg.Setup", "Can't setup dmesg">>,
       <<"Main: pt.Setup", "Can't setup paging">>,
       <<"Main: pt.Setup2", "Can't setup paging 2">>,
       <<"Main: kernel end", "Kernel end is lower than kernel space base">>,
       <<"Main: FindRegion", "Can't get available memory region">>,
       <<"Main: PageAllocator.Setup", "Can't setup page allocator">>,
       <<"Main: Lapic::Enable", "">>,
       <<"Main: acpi.Parse", "Can't parse ACPI">>,
       <<"Main: Test", "Self test failed">>,
       <<"Main: kbd.RegisterObserver", "Can't register cmd in kbd">>,
       <<"Main: SetBspIndex", "Can't set boot processor index">> >>

MainSteps ==
    << <<"Main: Idt.Save", "">>,
       <<"Main: Dmesg.Setup", "Can't setup dmesg">>,
       <<"Main: pt.Setup", "Can't setup paging">>,
       <<"Main: pt.Setup2", "Can't setup paging 2">>,
       <<"Main: kernel end", "Kernel end is lower than kernel space base">>,
       <<"Main: FindRegion", "Can't get available memory region">>,
       <<"Main: PageAllocator.Setup", "Can't setup page allocator">>,
       <<"Main: acpi.Parse", "Can't parse ACPI">>,
       <<"Main: Test", "Self test failed">>,
       <<"Main: kbd.RegisterObserver", "Can't register cmd in kbd">>,
       <<"Main: Lapic::Enable", "">>,
       <<"Main: SetBspIndex", "Can't set boot processor index">> >>

\* BpStartup up to InterruptEnable, and from the task test to the idle loop
BpStartupHead ==
    << <<"BpStartup: idt.Save", "">>,
       <<"BpStartup: UnmapNull", "">> >>

BpStartupTail ==
    << <<"BpStartup: TestMultiTasking", "Mulitasking test failed">>,
       <<"BpStartup: cmd.Start", "Can't start cmd">> >>

\* ApMain between ALLOC_CPU_STACK and cpu.Run
ApMainSteps ==
    << <<"ApMain: Idt.Save", "">>,
       <<"ApMain: Lapic::Enable", "">> >>

\* ApStartup up to InterruptEnable, and from the task test to the idle loop
ApStartupHead == << <<"ApStartup: Idt.Save", "">> >>

ApStartupTail == << <<"ApStartup: TestMultiTasking", "Mulitasking test failed">> >>

\* the straight-line parts of the boot code and the label each leads to
Segments ==
    << <<MainSteps, "Cpu::Run">>,
       <<BpStartupHead, "BpStartup: InterruptEnable">>,
       <<BpStartupTail, "BpStartup: Idle">>,
       <<ApMainSteps, "Cpu::Run">>,
       <<ApStartupHead, "ApStartup: InterruptEnable">>,
       <<ApStartupTail, "ApStartup: Idle">> >>

\* One step of a straight-line part: it succeeds and the next one follows, or
\* it fails and the code calls Panic
Straight(c) ==
    /\ \E s \in DOMAIN Segments : \E k \in DOMAIN Segments[s][1] :
         LET steps == Segments[s][1]
             next == IF k < Len(steps) THEN steps[k + 1][1] ELSE Segments[s][2]
         IN  /\ At(c, steps[k][1])
             /\ \/ /\ Log(c, steps[k][1])
                   /\ Goto(c, next)
                   /\ UNCHANGED Panic
                \/ /\ steps[k][2] # ""
                   /\ Panic' = steps[k][2]
                   /\ UNCHANGED <<pc, BootLog>>
    /\ UNCHANGED <<kernelVars, callVars, ret, RunningCpus, stackVars, CpuState,
                   InterruptEnabled, PreemptOnWaiting, ipiVars>>

\* the Task object a Cpu allocates for its first task
CpuTask(c) == c + 1

\* Cpu::Run(func, ctx): Task->Run(TaskQueue, func, ctx) on this CPU's own queue
CpuRun(c) ==
    /\ At(c, "Cpu::Run")
    /\ task' = [task EXCEPT ![c] = CpuTask(c)]
    /\ taskQueue' = [taskQueue EXCEPT ![c] = c]
    /\ pc' = [pc EXCEPT ![c] = <<"PrepareStart", "Run_prepared", "Cpu::Run: false">>]
    /\ Log(c, "Cpu::Run")
    /\ UNCHANGED <<kernelVars, object, objectId, ret, held, delta, RunningCpus, Panic,
                   stackVars, CpuState, InterruptEnabled, PreemptOnWaiting, ipiVars>>

\* Task::Run: Function(Ctx) is BpStartup or ApStartup, which do not return
RunStartup(c) ==
    /\ At(c, "Run_callback")
    /\ Invoked' = [Invoked EXCEPT ![task[c]] = @ + 1]
    /\ pc' = [pc EXCEPT ![c] =
                <<IF c = 0 THEN "BpStartup: idt.Save" ELSE "ApStartup: Idt.Save",
                  "TqRemove", "Run_unregister">> \o Tail(@)]
    /\ UNCHANGED <<otVars, taskVars, fieldVars, ttVars, queueVars, machineVars, failVars,
                   object, objectId, ret, held, task, taskQueue, delta>>

\* if (!cpu.Run(...)): Main panics, ApMain traces and returns
CpuRunFailed(c) ==
    /\ At(c, "Cpu::Run: false")
    /\ IF c = 0
       THEN Panic' = "Can't run cpu task" /\ UNCHANGED pc
       ELSE Goto(c, "ApMain: return") /\ UNCHANGED Panic
    /\ UNCHANGED <<kernelVars, callVars, ret, RunningCpus, machineVars>>

\* BugOn(IsInterruptEnabled()); InterruptEnable();
InterruptEnable(c) ==
    /\ At(c, "BpStartup: InterruptEnable") \/ At(c, "ApStartup: InterruptEnable")
    /\ IF InterruptEnabled[c]
       THEN /\ Panic' = "BugOn(IsInterruptEnabled())"
            /\ UNCHANGED <<pc, InterruptEnabled, BootLog>>
       ELSE /\ InterruptEnabled' = [InterruptEnabled EXCEPT ![c] = TRUE]
            /\ Log(c, "InterruptEnable")
            /\ Goto(c, IF c = 0 THEN "BpStartup: StartAll" ELSE "ApStartup: SetRunning")
            /\ UNCHANGED Panic
    /\ UNCHANGED <<kernelVars, callVars, ret, RunningCpus, stackVars, CpuState,
                   PreemptOnWaiting, ipiVars>>

\* Cpu::SetRunning: set the bit of this CPU in the running mask
SetRunningMask(mask, c) == mask + 2 ^ c

\* cpu.SetRunning()
SetRunning(c) ==
    /\ At(c, "ApStartup: SetRunning")
    /\ CpuState' = [CpuState EXCEPT ![c] = "Running"]
    /\ RunningCpus' = SetRunningMask(RunningCpus, c)
    /\ Log(c, "SetRunning")
    /\ Goto(c, "ApStartup: PreemptOnWaiting")
    /\ UNCHANGED <<kernelVars, callVars, ret, Panic, stackVars, InterruptEnabled,
                   PreemptOnWaiting, ipiVars>>

\* while (PreemptOnWaiting) Pause();
ApWaitPreemptOn(c) ==
    /\ At(c, "ApStartup: PreemptOnWaiting")
    /\ ~PreemptOnWaiting
    /\ Goto(c, "ApStartup: TestMultiTasking")
    /\ UNCHANGED <<kernelVars, callVars, ret, RunningCpus, Panic, machineVars>>

\* CpuTable::StartAll: send INIT+SIPI to every other known CPU, which enters
\* ApMain on its boot stack
StartAll(c) ==
    /\ At(c, "BpStartup: StartAll")
    /\ CpuState' = [a \in Cpus |-> IF a # c /\ CpuState[a] = "Offline"
                                   THEN "Starting" ELSE CpuState[a]]
    /\ pc' = [a \in Cpus |-> IF a = c THEN <<"StartAll: wait">> \o Tail(pc[c])
                             ELSE IF CpuState[a] = "Offline"
                                  THEN <<"ALLOC_CPU_STACK", "ApMain: Idt.Save">>
                                  ELSE pc[a]]
    /\ Log(c, "StartAll")
    /\ UNCHANGED <<kernelVars, callVars, ret, RunningCpus, Panic, stackVars,
                   InterruptEnabled, PreemptOnWaiting, ipiVars>>

\* CpuTable::StartAll: wait until every other CPU has published Running; false
\* when one has not come up within the bounded number of iterations.  With
\* all of them up the mask holds every CPU, the caller included.
StartAllWait(c) ==
    /\ At(c, "StartAll: wait")
    /\ IF \A a \in Cpus \ {c} : CpuState[a] = "Running"
       THEN /\ CpuState' = [CpuState EXCEPT ![c] = "Running"]
            /\ RunningCpus' = SetRunningMask(RunningCpus, c)
            /\ Log(c, "StartAll: true")
            /\ Goto(c, "BpStartup: PreemptOn")
            /\ UNCHANGED Panic
       ELSE /\ Panic' = "Can't start all cpus"
            /\ UNCHANGED <<pc, CpuState, RunningCpus, BootLog>>
    /\ UNCHANGED <<kernelVars, callVars, ret, stackVars, InterruptEnabled,
                   PreemptOnWaiting, ipiVars>>

\* A variant that leaves PreemptOnWaiting set
PreemptOnKeepsWaiting(c) ==
    /\ At(c, "BpStartup: PreemptOn")
    /\ Log(c, "PreemptOn")
    /\ Goto(c, "BpStartup: GetRunningCpus")
    /\ UNCHANGED <<kernelVars, callVars, ret, RunningCpus, Panic, stackVars, CpuState,
                   InterruptEnabled, PreemptOnWaiting, ipiVars>>

\* PreemptOn(); PreemptOnWaiting = false;
PreemptOn(c) ==
    /\ At(c, "BpStartup: PreemptOn")
    /\ PreemptOnWaiting' = FALSE
    /\ Log(c, "PreemptOn")
    /\ Goto(c, "BpStartup: GetRunningCpus")
    /\ UNCHANGED <<kernelVars, callVars, ret, RunningCpus, Panic, stackVars, CpuState,
                   InterruptEnabled, ipiVars>>

\* ulong cpuMask = cpus.GetRunningCpus(); for (ulong i = 0; ...
GetRunningCpus(c) ==
    /\ At(c, "BpStartup: GetRunningCpus")
    /\ ipiCpuMask' = [ipiCpuMask EXCEPT ![c] = RunningCpus]
    /\ cpuIndex' = [cpuIndex EXCEPT ![c] = 0]
    /\ Goto(c, "BpStartup: SendIPI")
    /\ UNCHANGED <<kernelVars, callVars, ret, RunningCpus, Panic, stackVars, CpuState,
                   BootLog, InterruptEnabled, PreemptOnWaiting, IpiAcks, IpiPending>>

\* CpuTable::SendIPI(i): raise IPIVector on a running CPU; otherwise a no-op
SendIPI(i, vector) ==
    IF i \in Cpus /\ CpuState[i] = "Running"
    THEN IpiPending' = [IpiPending EXCEPT ![i] = Append(@, vector)]
    ELSE UNCHANGED IpiPending

\* A variant of the loop body that does not skip the sender
SendIPIToAll(c, i) ==
    IF Bit(ipiCpuMask[c], i) THEN SendIPI(i, "IPIVector") ELSE UNCHANGED IpiPending

\* if (cpuMask & ((ulong)1 << i)) if (i != cpu.GetIndex()) cpus.SendIPI(i);
SendIPIToOthers(c, i) ==
    IF Bit(ipiCpuMask[c], i) /\ i # c THEN SendIPI(i, "IPIVector") ELSE UNCHANGED IpiPending

\* for (ulong i = 0; i < 8 * sizeof(ulong); i++) ...
IpiLoop(c) ==
    /\ At(c, "BpStartup: SendIPI")
    /\ IF cpuIndex[c] < MaskBits
       THEN /\ SendIPIToOthers(c, cpuIndex[c])
            /\ cpuIndex' = [cpuIndex EXCEPT ![c] = @ + 1]
            /\ UNCHANGED <<pc, BootLog>>
       ELSE /\ Log(c, "SendIPI")
            /\ Goto(c, "BpStartup: TestMultiTasking")
            /\ UNCHANGED <<IpiPending, cpuIndex>>
    /\ UNCHANGED <<kernelVars, callVars, ret, RunningCpus, Panic, stackVars, CpuState,
                   InterruptEnabled, PreemptOnWaiting, IpiAcks, ipiCpuMask>>

\* IPInterruptStub: acknowledge and return
IPInterruptStub(c) ==
    /\ Panic = ""
    /\ InterruptEnabled[c]
    /\ IpiPending[c] # <<>> /\ Head(IpiPending[c]) = "IPIVector"
    /\ IpiPending' = [IpiPending EXCEPT ![c] = Tail(@)]
    /\ IpiAcks' = [IpiAcks EXCEPT ![c] = @ + 1]
    /\ UNCHANGED <<kernelVars, cpuVars, RunningCpus, Panic, stackVars, CpuState, BootLog,
                   InterruptEnabled, PreemptOnWaiting, ipiCpuMask, cpuIndex>>

\* the shutdown stub: set this CPU's Exited flag and halt for ever with
\* interrupts disabled
ShutdownStub(c) ==
    /\ Panic = ""
    /\ InterruptEnabled[c]
    /\ IpiPending[c] # <<>> /\ Head(IpiPending[c]) = "Shutdown"
    /\ IpiPending' = [IpiPending EXCEPT ![c] = Tail(@)]
    /\ CpuState' = [CpuState EXCEPT ![c] = "Exited"]
    /\ RunningCpus' = RunningCpus - 2 ^ c
    /\ InterruptEnabled' = [InterruptEnabled EXCEPT ![c] = FALSE]
    /\ pc' = [pc EXCEPT ![c] = <<"hlt">> \o @]
    /\ UNCHANGED <<kernelVars, callVars, ret, Panic, stackVars, BootLog,
                   PreemptOnWaiting, IpiAcks, ipiCpuMask, cpuIndex>>

\* for (;;) { cpu.Idle(); if (cmd.IsExit()) { cmd.Stop(); break; } }  Exit();
BpIdle(c) ==
    /\ At(c, "BpStartup: Idle")
    /\ Log(c, "cmd.IsExit")
    /\ Goto(c, "Exit: ExitAllExceptSelf")
    /\ UNCHANGED <<kernelVars, callVars, ret, RunningCpus, Panic, stackVars, CpuState,
                   InterruptEnabled, PreemptOnWaiting, ipiVars>>

\* CpuTable::ExitAllExceptSelf: signal every other running CPU to stop
ExitAllExceptSelf(c) ==
    /\ At(c, "Exit: ExitAllExceptSelf")
    /\ IpiPending' = [a \in Cpus |-> IF a # c /\ CpuState[a] = "Running"
                                     THEN Append(IpiPending[a], "Shutdown")
                                     ELSE IpiPending[a]]
    /\ Goto(c, "ExitAllExceptSelf: wait")
    /\ UNCHANGED <<kernelVars, callVars, ret, RunningCpus, Panic, stackVars, CpuState,
                   BootLog, InterruptEnabled, PreemptOnWaiting, IpiAcks, ipiCpuMask, cpuIndex>>

\* TaskTable::~TaskTable: for each bucket i: Stdlib::AutoLock lock(Lock[i]);
\* after the last bucket the member TaskObjectTable is destroyed
TtDtorLock(c) ==
    /\ At(c, "~TaskTable")
    /\ IF dtorIndex >= NBuckets
       THEN /\ dtorIndex' = 0
            /\ Goto(c, "~ObjectTable")
            /\ UNCHANGED TtLock
       ELSE /\ TtLock[dtorIndex] = NoCpu
            /\ TtLock' = [TtLock EXCEPT ![dtorIndex] = c]
            /\ Goto(c, "~TaskTable: MoveTailList")
            /\ UNCHANGED dtorIndex
    /\ UNCHANGED <<otVars, taskVars, fieldVars, TaskList, queueVars, Invoked, failVars,
                   callVars, ret, stackVars, CpuState, BootLog, InterruptEnabled,
                   PreemptOnWaiting, ipiVars, taskList>>

\* A variant that drops the references with the bucket lock still held
TtDtorUnlockLate(c, i) == UNCHANGED TtLock

\* the end of the locked block of ~TaskTable
TtDtorUnlock(c, i) == TtLock' = [TtLock EXCEPT ![i] = NoCpu]

\* taskList.MoveTailList(&TaskList[i]); and the end of the locked block
TtDtorMove(c) ==
    /\ At(c, "~TaskTable: MoveTailList")
    /\ taskList' = TaskList[dtorIndex]
    /\ TaskList' = [TaskList EXCEPT ![dtorIndex] = <<>>]
    /\ TtDtorUnlock(c, dtorIndex)
    /\ Goto(c, "~TaskTable: Put")
    /\ UNCHANGED <<otVars, taskVars, fieldVars, queueVars, Invoked, failVars,
                   callVars, ret, stackVars, CpuState, BootLog, InterruptEnabled,
                   PreemptOnWaiting, ipiVars, dtorIndex>>

\* while (!taskList.IsEmpty()) { task = RemoveHead(); task->Put(); }
TtDtorPut(c) ==
    /\ At(c, "~TaskTable: Put")
    /\ IF taskList = <<>>
       THEN /\ dtorIndex' = dtorIndex + 1
            /\ Goto(c, "~TaskTable")
            /\ UNCHANGED <<taskVars, failVars, taskList, delta>>
       ELSE /\ Put(Head(taskList))
            /\ Counted(c, Head(taskList), -1)
            /\ taskList' = Tail(taskList)
            /\ UNCHANGED <<pc, dtorIndex>>
    /\ UNCHANGED <<otVars, fieldVars, ttVars, queueVars, Invoked,
                   object, objectId, held, task, taskQueue, ret, stackVars, CpuState,
                   BootLog, InterruptEnabled, PreemptOnWaiting, ipiVars>>

\* ObjectTable::~ObjectTable: for each slot: object = ObjectArray[objectId];
\* ObjectArray[objectId] = nullptr; if (object != nullptr) object->Put();
OtDtorSlot(c) ==
    /\ At(c, "~ObjectTable")
    /\ IF dtorIndex >= MaxObjects
       THEN /\ Return(c)
            /\ UNCHANGED <<ObjectArray, taskVars, failVars, dtorIndex, delta>>
       ELSE /\ ObjectArray' = [ObjectArray EXCEPT ![dtorIndex] = NULL]
            /\ IF ObjectArray[dtorIndex] # NULL
               THEN Put(ObjectArray[dtorIndex])
               ELSE UNCHANGED <<taskVars, failVars>>
            /\ Counted(c, ObjectArray[dtorIndex], -1)
            /\ dtorIndex' = dtorIndex + 1
            /\ UNCHANGED pc
    /\ UNCHANGED <<Lock, fieldVars, ttVars, queueVars, Invoked,
                   object, objectId, held, task, taskQueue, ret, stackVars, CpuState,
                   BootLog, InterruptEnabled, PreemptOnWaiting, ipiVars, taskList>>

\* A variant of Exit() that halts without tearing the singletons down
ExitHaltNoFinalize(c) ==
    /\ At(c, "ExitAllExceptSelf: wait")
    /\ \A a \in Cpus \ {c} : CpuState[a] = "Exited"
    /\ Log(c, "Bye")
    /\ Goto(c, "Exit: InterruptDisable")
    /\ UNCHANGED <<kernelVars, callVars, ret, RunningCpus, Panic, stackVars, CpuState,
                   InterruptEnabled, PreemptOnWaiting, ipiVars>>

\* ExitAllExceptSelf spins until all others are Exited; then Exit() goes on:
\* PreemptOff(); __cxa_finalize(0), the teardown of the global singletons,
\* which destroys the TaskTable
ExitHalt(c) ==
    /\ At(c, "ExitAllExceptSelf: wait")
    /\ \A a \in Cpus \ {c} : CpuState[a] = "Exited"
    /\ Log(c, "Bye")
    /\ pc' = [pc EXCEPT ![c] = <<"~TaskTable", "Exit: InterruptDisable">> \o Tail(@)]
    /\ UNCHANGED <<kernelVars, callVars, ret, RunningCpus, Panic, stackVars, CpuState,
                   InterruptEnabled, PreemptOnWaiting, ipiVars>>

\* InterruptDisable(); for (;;) Pause();
ExitPause(c) ==
    /\ At(c, "Exit: InterruptDisable")
    /\ InterruptEnabled' = [InterruptEnabled EXCEPT ![c] = FALSE]
    /\ Goto(c, "Exit: Pause")
    /\ UNCHANGED <<kernelVars, callVars, ret, RunningCpus, Panic, stackVars, CpuState,
                   BootLog, PreemptOnWaiting, ipiVars>>

\* the Task objects of the CPUs, as constructed
CpuTasks == {CpuTask(c) : c \in Cpus}

CpuTaskInit ==
    /\ RefCounter = [t \in CpuTasks |-> 1]
    /\ Stack = [t \in CpuTasks |-> FALSE]
    /\ TaskQueue = [t \in CpuTasks |-> NoCpu]
    /\ Freed = [t \in CpuTasks |-> FALSE]
    /\ ReleaseCount = [t \in CpuTasks |-> 0]
    /\ Pid = [t \in CpuTasks |-> InvalidObjectId]
    /\ Function = [t \in CpuTasks |-> FALSE]
    /\ Rsp = [t \in CpuTasks |-> FALSE]
    /\ State = [t \in CpuTasks |-> "New"]
    /\ CpuAffinity = [t \in CpuTasks |-> AllOnes]
    /\ Invoked = [t \in CpuTasks |-> 0]

\* The machine at the entry of Main: the boot processor is about to claim its
\* boot stack, the other CPUs are offline.
InitBoot ==
    /\ ObjectTableInit
    /\ CpuTaskInit
    /\ KernelInitBase
    /\ TaskList = [b \in Buckets |-> <<>>]
    /\ QueueList = [q \in Cpus |-> <<>>]
    /\ SwitchContextCounter = [q \in Cpus |-> 0]
    /\ RunningCpus = 0
    /\ StackIndex = 0
    /\ CpuStack = [c \in Cpus |-> NoStack]
    /\ CpuState = [c \in Cpus |-> IF c = 0 THEN "Starting" ELSE "Offline"]
    /\ IpiAcks = [c \in Cpus |-> 0]
    /\ BootLog = [c \in Cpus |-> <<>>]
    /\ InterruptEnabled = [c \in Cpus |-> FALSE]
    /\ PreemptOnWaiting = TRUE
    /\ IpiPending = [c \in Cpus |-> <<>>]
    /\ ipiCpuMask = [c \in Cpus |-> 0]
    /\ cpuIndex = [c \in Cpus |-> 0]
    /\ taskList = <<>>
    /\ dtorIndex = 0
    /\ ThreadsInit(Cpus)
    /\ pc = [c \in Cpus |-> IF c = 0 THEN <<"ALLOC_CPU_STACK", "Main: Idt.Save">> ELSE <<>>]
    /\ held = [c \in Cpus |-> [t \in CpuTasks |-> IF t = CpuTask(c) THEN 1 ELSE 0]]

NextBoot ==
    \/ \E c \in Cpus :
        \/ AllocCpuStack(c) \/ AllocCpuStackCheck(c) \/ Straight(c)
        \/ CpuRun(c) \/ PrepareStart(c) \/ PrepInserted(c)
        \/ OtInsertGet(c) \/ OtInsertLock(c) \/ OtInsertScan(c)
        \/ TtInsertPid(c) \/ TtInsertGet(c) \/ TtInsertLock(c) \/ TtInsertLink(c)
        \/ RunPrepared(c) \/ TqInsertGet(c) \/ TqInsertLink(c)
        \/ RunStartup(c) \/ CpuRunFailed(c) \/ InterruptEnable(c)
        \/ IPInterruptStub(c) \/ ShutdownStub(c)
    \/ \E c \in Cpus \ {0} : SetRunning(c) \/ ApWaitPreemptOn(c)
    \/ StartAll(0) \/ StartAllWait(0) \/ PreemptOn(0) \/ GetRunningCpus(0)
    \/ IpiLoop(0) \/ BpIdle(0) \/ ExitAllExceptSelf(0) \/ ExitHalt(0)
    \/ TtDtorLock(0) \/ TtDtorMove(0) \/ TtDtorPut(0) \/ OtDtorSlot(0) \/ ExitPause(0)

SpecBoot == InitBoot /\ [][NextBoot]_vars

\* ------------------------------------------------- bring-up under fairness
\* The steps CPU c takes by itself: the code it runs and the interrupts it
\* accepts.  Leaving the idle loop is not among them: whether and when the
\* exit command comes is up to the user.
CpuStep(c) ==
    \/ AllocCpuStack(c) \/ AllocCpuStackCheck(c) \/ Straight(c)
    \/ CpuRun(c) \/ PrepareStart(c) \/ PrepInserted(c)
    \/ OtInsertGet(c) \/ OtInsertLock(c) \/ OtInsertScan(c)
    \/ TtInsertPid(c) \/ TtInsertGet(c) \/ TtInsertLock(c) \/ TtInsertLink(c)
    \/ RunPrepared(c) \/ TqInsertGet(c) \/ TqInsertLink(c)
    \/ RunStartup(c) \/ CpuRunFailed(c) \/ InterruptEnable(c)
    \/ IPInterruptStub(c) \/ ShutdownStub(c)
    \/ c # 0 /\ (SetRunning(c) \/ ApWaitPreemptOn(c))
    \/ c = 0 /\ (\/ StartAll(c) \/ StartAllWait(c) \/ PreemptOn(c) \/ GetRunningCpus(c)
                 \/ IpiLoop(c) \/ ExitAllExceptSelf(c) \/ ExitHalt(c)
                 \/ TtDtorLock(c) \/ TtDtorMove(c) \/ TtDtorPut(c) \/ OtDtorSlot(c)
                 \/ ExitPause(c))

\* A CPU that is not halted goes on executing: whenever it can take a step it
\* takes one sooner or later.
FairBoot == \A c \in Cpus : WF_vars(CpuStep(c))

SpecBootFair == InitBoot /\ [][NextBoot]_vars /\ FairBoot

\* ------------------------------------------- ALLOC_CPU_STACK on many cores
\* one core more than there are boot stacks
Cores == 0 .. MaxCpus

\* a core enters Main (boot processor) or ApMain (application processor)
EnterKernel(c) ==
    /\ Panic = ""
    /\ pc[c] = <<>>
    /\ pc' = [pc EXCEPT ![c] = <<"ALLOC_CPU_STACK", "Gdt.Save">>]
    /\ UNCHANGED <<kernelVars, callVars, ret, RunningCpus, Panic, machineVars>>

InitStack ==
    /\ ObjectTableInit
    /\ TaskInit
    /\ KernelInitBase
    /\ TaskList = [b \in Buckets |-> <<>>]
    /\ QueueList = [q \in Cpus |-> <<>>]
    /\ SwitchContextCounter = [q \in Cpus |-> 0]
    /\ RunningCpus = 0
    /\ Invoked = [t \in Tasks |-> 0]
    /\ StackIndex = 0
    /\ CpuStack = [c \in Cores |-> NoStack]
    /\ CpuState = [c \in Cores |-> "Offline"]
    /\ IpiAcks = [c \in Cores |-> 0]
    /\ BootLog = [c \in Cores |-> <<>>]
    /\ InterruptEnabled = [c \in Cores |-> FALSE]
    /\ PreemptOnWaiting = TRUE
    /\ IpiPending = [c \in Cores |-> <<>>]
    /\ ipiCpuMask = [c \in Cores |-> 0]
    /\ cpuIndex = [c \in Cores |-> 0]
    /\ taskList = <<>>
    /\ dtorIndex = 0
    /\ ThreadsInit(Cores)
    /\ pc = [c \in Cores |-> <<>>]
    /\ held = [c \in Cores |-> [t \in Tasks |-> 0]]

NextStack == \E c \in Cores : EnterKernel(c) \/ AllocCpuStack(c) \/ AllocCpuStackCheck(c)

SpecStack == InitStack /\ [][NextStack]_vars

\* ------------------------------------------- the table locks, with teardown
\* Exit() has stopped the other CPUs
TearingDown == \E c \in Cpus : CpuState[c] = "Exited"

\* Exit() on CPU c: ExitAllExceptSelf has returned, every other CPU sits in
\* its shutdown stub (which it cannot enter while it holds a spin lock), the
\* tasks are scheduled no more; __cxa_finalize(0) destroys the TaskTable
Teardown(c) ==
    /\ At(c, "idle")
    /\ ~TearingDown
    /\ Lock = NoCpu /\ \A b \in Buckets : TtLock[b] = NoCpu
    /\ CpuState' = [a \in Cpus |-> IF a = c THEN CpuState[a] ELSE "Exited"]
    /\ RunningCpus' = 2 ^ c
    /\ pc' = [pc EXCEPT ![c] = <<"~TaskTable", "Exit: InterruptDisable">>]
    /\ UNCHANGED <<otVars, taskVars, fieldVars, ttVars, QueueList, SwitchContextCounter,
                   Invoked, failVars, callVars, ret, stackVars, BootLog, InterruptEnabled,
                   PreemptOnWaiting, ipiVars, dtorVars>>

\* the kernel at work: tasks are started, run, looked up and dropped
Working ==
    \/ \E c \in Threads : ObjectTableStep(c) \/ TaskTableStep(c) \/ TaskQueueStep(c) \/ TaskStep(c)
    \/ \E t \in Tasks : Dispatch(t)
    \/ \E t \in Tasks : CallStart(BootCpu, t)
    \/ \E t \in Tasks : CallRun(BootCpu, t)
    \/ StartDone(BootCpu)
    \/ \E c \in Cpus \ {BootCpu} : (\E t \in Tasks : CallLookup(c, Pid[t])) \/ LookupDone(c)
    \/ \E c \in Cpus : \E t \in Tasks : CallPut(c, t)

NextLocks ==
    \/ ~TearingDown /\ Working
    \/ Teardown(BootCpu)
    \/ TtDtorLock(BootCpu) \/ TtDtorMove(BootCpu) \/ TtDtorPut(BootCpu)
    \/ OtDtorSlot(BootCpu) \/ ExitPause(BootCpu)

SpecLocks == Init /\ [][NextLocks]_vars

\* ================================================================ claims
Top(c) == IF pc[c] = <<>> THEN "" ELSE Head(pc[c])
Stepped(c) == pc'[c] # pc[c]
Returned(c) == pc'[c] = Tail(pc[c])

RECURSIVE SumOver(_, _)
SumOver(f, S) ==
    IF S = {} THEN 0
    ELSE LET x == CHOOSE y \in S : TRUE IN f[x] + SumOver(f, S \ {x})

\* The references to task t that somebody holds: the callers' own, one per
\* ObjectArray slot, and the ones a call in progress has taken or is about
\* to hand over or drop.
OtInFlight(c, t) ==
    \/ Top(c) \in {"OtInsert_lock", "OtInsert_scan", "OtInsert_put"} /\ object[c] = t
    \/ Top(c) = "OtRemove_put" /\ object[c] = t
    \/ Top(c) = "lookup_done" /\ ret[c] = t
OtRefs(t) ==
    SumOver([c \in Cpus |-> held[c][t]], Cpus)
    + Cardinality({i \in ObjectIds : ObjectArray[i] = t})
    + Cardinality({c \in Cpus : OtInFlight(c, t)})

\* C1: for any interleaving of ObjectTable operations, Insert returns the
\* index of a slot that was empty and now holds its object; an occupied slot
\* changes only in the locked step of a Remove of that id, which empties it;
\* an empty slot changes only by an Insert that returns its index; Lookup
\* returns what the slot holds (null for an empty slot) and raises that
\* object's counter by exactly one; Lookup and Remove of an id outside the
\* array change nothing, and Lookup then returns null.
C1_InsertLookupRemove ==
    [][ /\ \A c \in Cpus :
            /\ (Stepped(c) /\ At(c, "OtInsert_scan") /\ Returned(c)) =>
                    /\ ret'[c] \in ObjectIds
                    /\ ObjectArray[ret'[c]] = NULL
                    /\ ObjectArray'[ret'[c]] = object[c]
            /\ (Stepped(c) /\ At(c, "OtLookup_read")) =>
                    /\ object'[c] = ObjectArray[objectId[c]]
                    /\ Lock' = c
                    /\ UNCHANGED <<ObjectArray, RefCounter>>
            /\ (Stepped(c) /\ At(c, "OtLookup_get")) =>
                    /\ ret'[c] = object[c]
                    /\ Lock = c
                    /\ RefCounter' = [t \in Tasks |->
                          RefCounter[t] + IF t = object[c] THEN 1 ELSE 0]
                    /\ UNCHANGED ObjectArray
            /\ (Stepped(c) /\ At(c, "OtRemove_swap")) =>
                    ObjectArray'[objectId[c]] = NULL
            /\ (Stepped(c) /\ At(c, "OtLookup") /\ objectId[c] >= MaxObjects) =>
                    /\ ret'[c] = NULL /\ Returned(c)
                    /\ UNCHANGED <<ObjectArray, taskVars>>
            /\ (Stepped(c) /\ At(c, "OtRemove") /\ objectId[c] >= MaxObjects) =>
                    /\ Returned(c)
                    /\ UNCHANGED <<ObjectArray, taskVars>>
        /\ \A i \in ObjectIds :
            ObjectArray'[i] # ObjectArray[i] =>
                \E c \in Cpus :
                    /\ Stepped(c)
                    /\ \/ At(c, "OtRemove_swap") /\ objectId[c] = i
                       \/ /\ At(c, "OtInsert_scan") /\ ObjectArray[i] = NULL
                          /\ ret'[c] = i
      ]_vars

\* C1 witness: a Lookup has returned an object that an Insert stored, while a
\* Remove of another id completed and left that slot empty.
C1_Witness ==
    \E c \in Cpus : \E i \in ObjectIds :
        /\ Top(c) = "lookup_done" /\ ret[c] # NULL
        /\ ObjectArray[i] = ret[c]
        /\ \E j \in ObjectIds : ObjectArray[j] = NULL /\ j < i

\* C2: a Lookup racing with Remove of the same id hands out either null or a
\* live object: between reading the slot and taking the reference the object
\* is not released and its counter is positive, and a returned object is not
\* released and its counter covers every reference handed out.
C2_LookupRaceSafe ==
    \A c \in Cpus :
        /\ (Top(c) = "OtLookup_get" /\ object[c] # NULL) =>
                /\ ~Freed[object[c]]
                /\ ReleaseCount[object[c]] = 0
                /\ RefCounter[object[c]] > 0
        /\ (Top(c) = "lookup_done" /\ ret[c] # NULL) =>
                /\ ~Freed[ret[c]]
                /\ ReleaseCount[ret[c]] = 0
                /\ RefCounter[ret[c]] >= OtRefs(ret[c])
                /\ OtRefs(ret[c]) >= 1

\* C2 witness: Lookup returned an object whose only reference is the
\* caller's: a Remove of its id ran concurrently and has already dropped the
\* table's reference, and the creator has dropped its own.
C2_Witness ==
    \E c \in Cpus :
        /\ Top(c) = "lookup_done" /\ ret[c] # NULL
        /\ RefCounter[ret[c]] = 1
        /\ \A i \in ObjectIds : ObjectArray[i] # ret[c]

\* C3: with every Put matching the initial reference or an earlier Get, the
\* release hook runs exactly once, in the step that takes the counter from 1
\* to 0 and in no other, and no BugOn of Get or Put fires (no Get or Put sees
\* a counter <= 0, none touches a released task).
C3_ReleaseExactlyOnce ==
    /\ [](/\ Panic = ""
          /\ Undefined = {}
          /\ \A t \in Tasks :
                /\ RefCounter[t] >= 0
                /\ ReleaseCount[t] = (IF RefCounter[t] = 0 THEN 1 ELSE 0)
                /\ Freed[t] = (ReleaseCount[t] = 1))
    /\ [][\A t \in Tasks :
            ReleaseCount'[t] =
                ReleaseCount[t]
                + (IF RefCounter[t] = 1 /\ RefCounter'[t] = 0 THEN 1 ELSE 0)]_vars

\* C3 witness: a task held by both CPUs at once (counter 3 or more) has later
\* been released.
C3_Witness ==
    \E t \in Tasks : ReleaseCount[t] = 1 /\ RefCounter[t] = 0

\* C4: an Insert that finds every slot occupied changes no slot, returns
\* InvalidObjectId, and drops the reference it took without releasing the
\* object: the counter is what the holders account for, the returned call
\* holding nothing.
C4_FullInsertNoSideEffects ==
    /\ [](\A t \in Tasks : RefCounter[t] = OtRefs(t))
    /\ [][\A c \in Cpus :
            /\ (Stepped(c) /\ At(c, "OtInsert_scan")
                    /\ \A i \in ObjectIds : ObjectArray[i] # NULL) =>
                    /\ pc'[c] = <<"OtInsert_put">> \o Tail(pc[c])
                    /\ UNCHANGED <<ObjectArray, taskVars>>
            /\ (Stepped(c) /\ At(c, "OtInsert_put")) =>
                    /\ ret'[c] = InvalidObjectId /\ Returned(c)
                    /\ RefCounter' = [RefCounter EXCEPT ![object[c]] = @ - 1]
                    /\ RefCounter'[object[c]] >= 1
                    /\ UNCHANGED <<ObjectArray, Freed, ReleaseCount, Stack>>
         ]_vars

\* C4 witness: an Insert has returned InvalidObjectId with the table full.
C4_Witness ==
    \E c \in Cpus :
        /\ Top(c) = "insert_done" /\ ret[c] = InvalidObjectId
        /\ \A i \in ObjectIds : ObjectArray[i] # NULL

\* ------------------------------------------------------------ C5 .. C10
\* What TaskTable::Lookup(id) returns in the current state
LookupResult(id) == IF id \in ObjectIds THEN ObjectArray[id] ELSE NULL

\* Some thread is between the steps of TaskTable::Insert(t) or ::Remove(t)
InTaskTableCall(t) ==
    \E c \in DOMAIN pc :
        /\ task[c] = t
        /\ \E k \in 1 .. Len(pc[c]) :
             pc[c][k] \in {"TtInsert_pid", "TtInsert_get", "TtInsert_lock", "TtInsert_link",
                           "TtRemove_lock", "TtRemove_unlink", "TtRemove_put"}

BucketsOf(t) == {b \in Buckets : InSeq(TaskList[b], t)}

\* C5: a task registered in the TaskTable is what Lookup(T.Pid) returns, and
\* once TaskTable::Remove(T) has returned Lookup(T.Pid) returns null, whatever
\* other tasks were inserted or removed meanwhile (the freed slot may have
\* been given to another task).
C5_LookupByPid ==
    \A t \in DOMAIN Pid :
        ~InTaskTableCall(t) =>
            /\ Linked(t) => LookupResult(Pid[t]) = t
            /\ (Function[t] /\ ~Linked(t)) => LookupResult(Pid[t]) = NULL

\* C6: TaskTable::Remove(task) lowers the reference count of the task by
\* exactly one (the statement of the specification).
C6_RemoveDropsOne ==
    \A c \in DOMAIN pc :
        Top(c) \in {"Run_ret", "Exit_schedule"} => delta[c] = -1

\* C6: TaskTable::Remove(task) lowers the reference count of the task by
\* exactly two: the reference of the ObjectTable slot and the reference of the
\* bucket list, the two references TaskTable::Insert took.
C6_RemoveDropsTwo ==
    /\ \A c \in DOMAIN pc :
        Top(c) \in {"Run_ret", "Exit_schedule"} => delta[c] = -2
    /\ \A c \in DOMAIN pc :
        (Top(c) = "Prep_inserted" /\ ret[c] = 1) => delta[c] = 2

C6_Witness ==
    \E c \in DOMAIN pc :
        /\ Top(c) = "Exit_schedule" /\ delta[c] = -2
        /\ ~Linked(task[c]) /\ LookupResult(Pid[task[c]]) = NULL

\* C7: in every state and for every task, Pid = InvalidObjectId exactly when
\* the task is linked in no TaskTable bucket, and a task with a valid Pid is
\* linked in exactly one bucket.
C7_PidIffLinked ==
    \A t \in DOMAIN Pid :
        /\ Pid[t] = InvalidObjectId <=> BucketsOf(t) = {}
        /\ Pid[t] # InvalidObjectId => Cardinality(BucketsOf(t)) = 1

\* C8: when Task::Start or Task::Run returns false (no stack, or the
\* TaskTable is full) the task has no ObjectTable slot, is in no bucket and
\* on no queue, has no stack and no function, is in state New, and its
\* reference count is what it was before the call.
C8_FailedStartLeavesNothing ==
    \A c \in DOMAIN pc :
        (Top(c) \in {"start_done", "run_done"} /\ ret[c] = 0) =>
            LET t == task[c] IN
            /\ \A i \in ObjectIds : ObjectArray[i] # t
            /\ BucketsOf(t) = {}
            /\ TaskQueue[t] = NoCpu
            /\ \A q \in Cpus : ~InSeq(QueueList[q], t)
            /\ ~Stack[t] /\ ~Function[t] /\ State[t] = "New"
            /\ delta[c] = 0

C8_Witness ==
    \E c \in DOMAIN pc :
        /\ Top(c) \in {"start_done", "run_done"} /\ ret[c] = 0
        /\ \A i \in ObjectIds : ObjectArray[i] # NULL
        /\ ~Stack[task[c]]

\* C9: Task::Start on a task whose affinity mask shares no bit with the
\* running CPUs returns false, puts the task on no queue and never uses the
\* null queue SelectNextTaskQueue returned.
C9_StartFailsWithoutQueue ==
    /\ "null dereference" \notin Undefined
    /\ \A c \in DOMAIN pc :
        (Top(c) = "start_done" /\ BitAnd(RunningCpus, CpuAffinity[task[c]]) = 0) =>
            /\ ret[c] = 0
            /\ TaskQueue[task[c]] = NoCpu

\* The CPUs SelectNextTaskQueue may choose for task t
Candidates(t) ==
    {i \in 0 .. (MaskBits - 1) :
        Bit(RunningCpus, i) /\ Bit(CpuAffinity[t], i) /\ i # TaskQueue[t]}

\* C10: SelectNextTaskQueue returns the queue of a CPU that is running, is in
\* the affinity mask and is not the task's current queue, with the least
\* context-switch counter among these CPUs and the lowest index among those
\* with the least counter; it returns null when there is no such CPU.
C10_SelectsLeastLoaded ==
    \A c \in DOMAIN pc :
        Top(c) = "select_done" =>
            LET cand == Candidates(task[c])
                q == taskQueue[c]
            IN  IF cand = {} THEN q = NoCpu
                ELSE /\ q \in cand
                     /\ \A j \in cand :
                          /\ SwitchContextCounter[q] <= SwitchContextCounter[j]
                          /\ SwitchContextCounter[q] = SwitchContextCounter[j] => q <= j

C10_Witness ==
    \E c \in DOMAIN pc :
        /\ Top(c) = "select_done"
        /\ Cardinality(Candidates(task[c])) > 1
        /\ \E j \in Candidates(task[c]) :
             j # taskQueue[c] /\ SwitchContextCounter[j] = SwitchContextCounter[taskQueue[c]]

\* ----------------------------------------------------------- C11 .. C20
\* C11: on a machine whose CPUs all run with equal context-switch counters,
\* tasks started one after another with affinity = all CPUs (fewer tasks than
\* CPUs, or as many) are placed on pairwise distinct CPUs' queues.
C11_DistinctPlacement ==
    \A t1 \in Tasks : \A t2 \in Tasks :
        (t1 # t2 /\ TaskQueue[t1] # NoCpu /\ TaskQueue[t2] # NoCpu)
            => TaskQueue[t1] # TaskQueue[t2]

\* The task was started with Task::Start (not Task::Run)
StartedByStart(t) == State[t] = "Waiting" \/ pc[Thread(t)] # <<>>

\* C12: a task started with affinity = {CPU k} is put on the queue of CPU k
\* only, is executed by CPU k only, and once placed by Start it is never
\* moved to another queue.
C12_NoMigration ==
    /\ [](\A t \in Tasks : \A k \in Cpus :
            (StartedByStart(t) /\ CpuAffinity[t] = 2 ^ k) =>
                /\ TaskQueue[t] \in {k, NoCpu}
                /\ \A q \in Cpus : InSeq(QueueList[q], t) => q = k
                /\ pc[Thread(t)] # <<>> => taskQueue[Thread(t)] = k)
    /\ [][\A t \in Tasks :
            (StartedByStart(t) /\ TaskQueue[t] # NoCpu) => TaskQueue'[t] = TaskQueue[t]]_vars

C12_Witness ==
    \E t \in Tasks : \E k \in Cpus :
        /\ k # BootCpu /\ CpuAffinity[t] = 2 ^ k
        /\ TaskQueue[t] = k /\ State[t] = "Exited"
        /\ pc[Thread(t)] = <<"switched_out">>

\* The queues task t is a member of
QueuesOf(t) == {q \in Cpus : InSeq(QueueList[q], t)}

\* C13: in every state each task is a member of at most one TaskQueue; its
\* back-pointer Task::TaskQueue is that queue when it is a member of one and
\* null when it is a member of none.
C13_OneQueueBackPointer ==
    \A t \in DOMAIN TaskQueue :
        /\ Cardinality(QueuesOf(t)) <= 1
        /\ \A q \in Cpus : InSeq(QueueList[q], t) => TaskQueue[t] = q
        /\ QueuesOf(t) = {} => TaskQueue[t] = NoCpu
        /\ \A q \in Cpus :
             Cardinality({k \in 1 .. Len(QueueList[q]) : QueueList[q][k] = t}) <= 1

\* A task put on a queue by Run has left it again while one started by Start
\* sits on its queue.
C13_Witness ==
    \E t1 \in Tasks : \E t2 \in Tasks :
        /\ t1 # t2
        /\ \E c \in Cpus : Top(c) = "Run_ret" /\ task[c] = t1
        /\ QueuesOf(t1) = {} /\ TaskQueue[t1] = NoCpu
        /\ QueuesOf(t2) # {} /\ State[t2] = "Exited"

\* C14: the callback of a task is called exactly once over the life of the
\* task: never twice, once by the time Run has returned true or the started
\* task has got past its trampoline, and a second Start or Run on the same
\* Task object does not call it again (it stops at a BugOn).
C14_CallbackOnce ==
    /\ \A t \in DOMAIN Invoked : Invoked[t] <= 1
    /\ \A t \in Tasks :
        /\ State[t] = "Exited" => Invoked[t] = 1
        /\ Top(Thread(t)) \notin {"", "ExecCallback"} => Invoked[t] = 1
    /\ \A c \in Cpus :
        (Top(c) = "run_done" /\ ret[c] = 1) => Invoked[task[c]] = 1

\* A task has run its callback and exited, and a second Start or Run on it
\* has been stopped.
C14_Witness ==
    \E t \in Tasks :
        /\ Invoked[t] = 1 /\ State[t] = "Exited"
        /\ Panic = "BugOn(Stack != nullptr)"
        /\ \E c \in Cpus : task[c] = t /\ Top(c) = "PrepareStart"

\* C15: Task::Exit takes effect only when the task itself executes it; it
\* sets the state to Exited, takes the task out of the TaskTable and calls
\* Schedule; state Exited is absorbing, the exited task never runs again and
\* the Panic after Schedule is never reached.
C15_ExitIsFinal ==
    /\ [](Panic # "Can't be here")
    /\ [](\A t \in Tasks :
            pc[Thread(t)] = <<"switched_out">> => (State[t] = "Exited" /\ ~Linked(t)))
    /\ [][\A t \in Tasks :
            /\ State[t] = "Exited" => State'[t] = "Exited"
            /\ (State[t] # "Exited" /\ State'[t] = "Exited") =>
                  (Top(Thread(t)) = "Exit" /\ task[Thread(t)] = t /\ Stepped(Thread(t)))
            /\ pc[Thread(t)] = <<"switched_out">> => pc'[Thread(t)] = <<"switched_out">>
         ]_vars

\* One task has exited for good and an Exit called on another task by code
\* that is not that task was stopped.
C15_Witness ==
    /\ Panic = "BugOn(this != GetCurrentTask())"
    /\ \E t \in Tasks : pc[Thread(t)] = <<"switched_out">> /\ State[t] = "Exited"
    /\ \E c \in Cpus : Top(c) = "Exit" /\ State[task[c]] # "Exited"

\* thread c is inside task->Wait() on task t
Waiting(c, t) == task[c] = t /\ Top(c) \in {"Wait", "Wait_sleep"}

\* C16: Task::Wait returns only after it has seen the state Exited, and under
\* fair scheduling a Wait on a task whose callback was invoked (and returns)
\* eventually returns, whether the task was started with Start or with Run.
C16_WaitReturns ==
    /\ [][\A c \in Cpus : (Top(c) = "Wait" /\ Top(c)' = "wait_done")
                            => State[task[c]] = "Exited"]_vars
    /\ \A t \in Tasks :
         (Waiting(BootCpu, t) /\ Invoked[t] = 1) ~> (~Waiting(BootCpu, t) \/ Panic # "")

\* C20: CPUs that execute ALLOC_CPU_STACK concurrently get pairwise distinct
\* slot indices in 0 .. MaxCpus-1 and never share a boot stack; a CPU that
\* finds the counter >= MaxCpus panics and never sets rsp.
C20_DistinctBootStacks ==
    /\ [](\A c \in Cores :
            /\ CpuStack[c] \in (0 .. MaxCpus - 1) \cup {NoStack}
            /\ \A d \in Cores \ {c} :
                 /\ CpuStack[c] # NoStack => CpuStack[c] # CpuStack[d]
                 /\ (Top(c) = "ALLOC_CPU_STACK: SetRsp" /\ Top(d) = "ALLOC_CPU_STACK: SetRsp")
                       => ret[c] # ret[d]
                 /\ Top(c) = "ALLOC_CPU_STACK: SetRsp" => ret[c] # CpuStack[d]
            /\ Top(c) = "Gdt.Save" => CpuStack[c] = ret[c])
    /\ [][\A c \in Cores :
            (Top(c) = "ALLOC_CPU_STACK: SetRsp" /\ ret[c] >= MaxCpus /\ Stepped(c))
               => (Panic' = "Can't allocate stack for cpu" /\ CpuStack' = CpuStack)]_vars
    /\ [](\A c \in Cores :
            (Top(c) = "ALLOC_CPU_STACK: SetRsp" /\ ret[c] >= MaxCpus) => CpuStack[c] = NoStack)

\* Every boot stack is in use by a different CPU and the CPU that came last
\* has panicked without a stack.
C20_Witness ==
    /\ Panic = "Can't allocate stack for cpu"
    /\ \E c \in Cores : ret[c] >= MaxCpus /\ CpuStack[c] = NoStack
    /\ \A i \in 0 .. MaxCpus - 1 : \E c \in Cores : CpuStack[c] = i

\* position of the first occurrence of a step in a log, 0 when it is absent
RECURSIVE PosFrom(_, _, _)
PosFrom(log, step, k) ==
    IF k > Len(log) THEN 0
    ELSE IF log[k] = step THEN k ELSE PosFrom(log, step, k + 1)

Logged(c, step) == PosFrom(BootLog[c], step, 1) > 0

\* all the steps are in the log of c, in this order
InOrder(c, steps) ==
    /\ \A k \in DOMAIN steps : Logged(c, steps[k])
    /\ \A k \in DOMAIN steps : \A j \in DOMAIN steps :
          k < j => PosFrom(BootLog[c], steps[k], 1) < PosFrom(BootLog[c], steps[j], 1)

\* the boot processor has begun multiprocessor work: Cpu::Run, StartAll, a
\* task start of its own, or anything another CPU does
MultiprocessorWork ==
    \/ Top(0) = "Cpu::Run: false" \/ Logged(0, "Cpu::Run") \/ Logged(0, "StartAll")
    \/ Logged(0, "BpStartup: TestMultiTasking") \/ Logged(0, "BpStartup: cmd.Start")
    \/ \E t \in DOMAIN State : State[t] # "New" \/ Stack[t] \/ Pid[t] # InvalidObjectId
    \/ \E c \in Cpus \ {0} : CpuState[c] # "Offline" \/ pc[c] # <<>>

\* C17: on the boot processor Cpu::Run, StartAll and every task start come
\* only after paging setup, page-allocator setup, ACPI parse and
\* Lapic::Enable have succeeded, in that order; an application processor
\* enables interrupts only after its IDT is loaded and Cpu::Run has installed
\* its first task, and publishes Running only after that.
C17_BootOrder ==
    /\ MultiprocessorWork =>
          InOrder(0, <<"Main: pt.Setup", "Main: pt.Setup2", "Main: PageAllocator.Setup",
                       "Main: acpi.Parse", "Main: Lapic::Enable">>)
    /\ \A c \in Cpus \ {0} :
          /\ InterruptEnabled[c] => Logged(c, "InterruptEnable")
          /\ Logged(c, "InterruptEnable") =>
                /\ InOrder(c, <<"ApMain: Idt.Save", "Cpu::Run", "ApStartup: Idt.Save",
                                "InterruptEnable">>)
                /\ task[c] = CpuTask(c)
                /\ State[CpuTask(c)] = "Running"
                /\ InSeq(QueueList[c], CpuTask(c))
                /\ Invoked[CpuTask(c)] = 1
          /\ (CpuState[c] \in {"Running", "Exited"} \/ Bit(RunningCpus, c)) =>
                InOrder(c, <<"InterruptEnable", "SetRunning">>)

\* The boot processor has started the others and an application processor
\* runs with interrupts enabled.
C17_Witness ==
    /\ Panic = ""
    /\ Logged(0, "StartAll: true")
    /\ \E c \in Cpus \ {0} : CpuState[c] = "Running" /\ InterruptEnabled[c]

\* IPIs raised on CPU c so far: acknowledged ones and ones still pending
IpisSentTo(c) ==
    IpiAcks[c] + Cardinality({k \in DOMAIN IpiPending[c] : IpiPending[c][k] = "IPIVector"})

C19_NothingRegisteredAtHalt ==
    Top(0) = "Exit: Pause" =>
        /\ \A c \in Cpus \ {0} : CpuState[c] = "Exited"
        /\ \A id \in ObjectIds : ObjectArray[id] = NULL
        /\ \A b \in Buckets : TaskList[b] = <<>>

\* The boot processor has halted after the teardown; both startup tasks had
\* been registered by Task::Run, which never returned.
C19_Witness ==
    /\ Top(0) = "Exit: Pause"
    /\ \A c \in Cpus \ {0} : CpuState[c] = "Exited"
    /\ \A t \in CpuTasks : Pid[t] # InvalidObjectId /\ Invoked[t] = 1 /\ State[t] = "Running"
    /\ \A id \in ObjectIds : ObjectArray[id] = NULL
    /\ \A c \in Cpus : "Run_unregister" \in {pc[c][k] : k \in DOMAIN pc[c]}

\* thread c holds the ObjectTable lock or a TaskTable bucket lock
HoldsTableLock(c) == Lock = c \/ \E b \in Buckets : TtLock[b] = c

\* thread c is the one that takes the step
Acts(c) ==
    \/ pc'[c] # pc[c] \/ held'[c] # held[c]
    \/ /\ Top(c) \in {"~TaskTable: Put", "~ObjectTable"}
       /\ <<taskList, dtorIndex>>' # <<taskList, dtorIndex>>

\* thread c is about to spin on a table lock
AcquiresTableLock(c) ==
    Top(c) \in {"OtInsert_lock", "OtRemove", "OtLookup", "TtInsert_lock", "TtRemove_lock",
                "~TaskTable"}

\* thread c is inside a TaskQueue operation
InTaskQueueCall(c) ==
    \E k \in DOMAIN pc[c] : pc[c][k] \in {"TqInsert", "TqInsert_link", "TqRemove", "TqRemove_put"}

\* C21: in ObjectTable and TaskTable Insert, Remove, Lookup and the TaskTable
\* destructor no Put runs while the ObjectTable lock or a bucket lock is
\* held; no CPU takes the ObjectTable lock while it holds a bucket lock or is
\* inside a TaskQueue operation; a lock holder never waits for another table
\* lock, so the table operations cannot deadlock against each other.
C21_LockDiscipline ==
    /\ [][\A c \in Threads :
            (Acts(c) /\ \E t \in DOMAIN RefCounter :
                           RefCounter'[t] < RefCounter[t] \/ ReleaseCount'[t] > ReleaseCount[t])
               => ~HoldsTableLock(c)]_vars
    /\ [](\A c \in Threads :
            /\ (Lock = c \/ Top(c) \in {"OtInsert_lock", "OtRemove", "OtLookup"}) =>
                  /\ \A b \in Buckets : TtLock[b] # c
                  /\ ~InTaskQueueCall(c)
            /\ HoldsTableLock(c) => ~AcquiresTableLock(c)
            /\ Cardinality({b \in Buckets : TtLock[b] = c}) <= 1)

\* A Put made by a table operation has released a task, and the teardown has
\* dropped the references of the tasks that were still registered.
C21_Witness ==
    /\ Panic = ""
    /\ Top(BootCpu) = "Exit: Pause"
    /\ \E t \in Tasks : Freed[t]
    /\ \E t \in DOMAIN RefCounter : ~Freed[t] /\ Pid[t] # InvalidObjectId


\* ------------------------------------------------------------------- C22
Registered(t) == Linked(t) \/ \E i \in ObjectIds : ObjectArray[i] = t
InExit(t) ==
    /\ State[t] = "Exited"
    /\ \E k \in DOMAIN pc[Thread(t)] : pc[Thread(t)][k] = "Exit_schedule"
Released(t) == Freed[t] \/ ReleaseCount[t] > 0

\* C22: Task::Release and the destructor never run for a task that is still
\* on a TaskQueue, still registered in the TaskTable, or still executing in
\* Task::Exit on its own stack after it has set state Exited, even when the
\* creator's reference is dropped as soon as Exited is visible; the BugOn of
\* Release never fires.
C22_NoReleaseWhileInUse ==
    /\ Panic # "BugOn(TaskQueue != nullptr)"
    /\ \A t \in AllTasks :
          Released(t) => /\ TaskQueue[t] = NoCpu
                         /\ \A q \in Cpus : ~InSeq(QueueList[q], t)
                         /\ ~Registered(t)
                         /\ ~InExit(t)

\* the creator's reference is gone while the task is still inside Exit, and
\* another task has been released
C22_Witness ==
    /\ Panic = ""
    /\ \E t \in Tasks : /\ InExit(t) /\ held[BootCpu][t] = 0
                        /\ RefCounter[t] > 0 /\ ~Released(t)
    /\ \E t \in Tasks : Released(t) /\ RefCounter[t] = 0


\* ------------------------------------------------------------------- C23
Prepared(t) ==
    /\ Stack[t] /\ Function[t]
    /\ Pid[t] \in ObjectIds
    /\ State[t] # "New"
    /\ State[t] = "Waiting" => Rsp[t]

\* thread c links its task into a queue in this step
InsertsIntoQueue(c) ==
    /\ At(c, "TqInsert_link")
    /\ QueueList' # QueueList

\* C23: a task is on a TaskQueue only when it is prepared: it has its stack,
\* its callback and a valid pid, and its state is not New.  In the step in
\* which Start or Run links it into the queue it is registered in the
\* TaskTable under that pid, and its state is Waiting with the initial frame
\* saved in Rsp (Start) or Running (Run).  A task that is switched to for the
\* first time is prepared.
C23_QueuedOnlyWhenPrepared ==
    /\ [](\A q \in Cpus : \A t \in AllTasks : InSeq(QueueList[q], t) => Prepared(t))
    /\ [][\A c \in Threads : InsertsIntoQueue(c) =>
            /\ Prepared(task[c])
            /\ ObjectArray[Pid[task[c]]] = task[c]
            /\ Linked(task[c])
            /\ pc[c][2] \in {"Start_ret", "Run_callback"}
            /\ pc[c][2] = "Start_ret" => State[task[c]] = "Waiting" /\ Rsp[task[c]]
            /\ pc[c][2] = "Run_callback" => State[task[c]] = "Running"]_vars
    /\ [][\A t \in Tasks : (pc[Thread(t)] = <<>> /\ pc'[Thread(t)] # <<>>) =>
            Prepared(t) /\ State[t] = "Waiting"]_vars

\* one task put on a queue by Start has been switched to, another is on the
\* boot CPU's queue inside Run
C23_Witness ==
    /\ Panic = ""
    /\ \E t \in Tasks : TaskQueue[t] # NoCpu /\ pc[Thread(t)] # <<>>
    /\ \E t \in Tasks : /\ InSeq(QueueList[BootCpu], t) /\ State[t] = "Running"
                        /\ Top(BootCpu) = "Run_callback" /\ task[BootCpu] = t


\* ------------------------------------------------------------------- C24
\* label l is on the call stack of CPU c (an interrupt stub may be on top)
InFrame(c, l) == \E k \in DOMAIN pc[c] : pc[c][k] = l
ApWaiting(c) == InFrame(c, "ApStartup: PreemptOnWaiting")
ApProceeded(c) ==
    InFrame(c, "ApStartup: TestMultiTasking") \/ InFrame(c, "ApStartup: Idle")
Aps == Cpus \ {0}

\* C24: an application processor leaves the PreemptOnWaiting loop only after
\* the boot processor has returned from StartAll and then called PreemptOn;
\* an application processor that waits in the loop has published Running, so
\* StartAll fails only when some processor has not; once every application
\* processor waits, the boot processor clears PreemptOnWaiting, and a waiting
\* processor then leaves the loop unless the kernel has stopped (Panic, or
\* the shutdown interrupt has halted the processor).
C24_BringUpHandshake ==
    /\ [](\A a \in Aps :
            /\ ApProceeded(a) => /\ InOrder(0, <<"StartAll: true", "PreemptOn">>)
                                 /\ ~PreemptOnWaiting
            /\ ApWaiting(a) => Logged(a, "SetRunning") /\ CpuState[a] \in {"Running", "Exited"})
    /\ [](~PreemptOnWaiting => InOrder(0, <<"StartAll: true", "PreemptOn">>))
    /\ [](Panic = "Can't start all cpus" => \E a \in Aps : ~ApWaiting(a))
    /\ (\A a \in Aps : ApWaiting(a)) ~> ~PreemptOnWaiting
    /\ \A a \in Aps :
          ApWaiting(a) ~> (ApProceeded(a) \/ Panic # "" \/ CpuState[a] = "Exited")

\* an application processor has left the loop and runs its task test
C24_Witness ==
    /\ Panic = ""
    /\ \E a \in Aps : ApProceeded(a) /\ CpuState[a] = "Running" /\ Logged(a, "SetRunning")

====
